---------------------------- MODULE Spec2Model ----------------------------
(***************************************************************************)
(* DependencyResolver of extract_selective.py: the record loader, the      *)
(* dependency-graph builder, the classifier and the query/export engine.   *)
(*                                                                         *)
(* Representation.                                                         *)
(*   - A Python str that the code inspects character by character (a type  *)
(*     name, a search query) is a sequence of one-character strings.       *)
(*   - A JSON object key ("100", "meta") is a TLA+ string; str() and int() *)
(*     are the operators Str and IntOf below.                              *)
(*   - A Python dict whose iteration order the code depends on is a        *)
(*     sequence of [k, v] entries in insertion order; a dict that is only  *)
(*     indexed is a function; a Python set is a set.                       *)
(***************************************************************************)
EXTENDS Integers, Sequences, FiniteSets, TLC

(***************************************************************************)
(* Bounds of the model.                                                    *)
(***************************************************************************)
NumIds == 3          \* type ids 1..NumIds appear in the generated files
MaxBlueprints == 2   \* blueprints in a generated blueprints.json
MaxActs == 2         \* activities in a generated blueprints.json
MaxRefs == 1         \* material entries, and product entries, per activity
SmallDepth == 3      \* explicit depth arguments 0..SmallDepth are tried
MaxNameLen == 2      \* characters of a generated name or search query
MaxRuns == 3            \* extraction threads started in one behaviour
MaxSelect == 2       \* ids in the type_ids list of an export

(***************************************************************************)
(* Program constants.                                                      *)
(***************************************************************************)
DefaultDepth == 10   \* get_dependencies(self, type_id, depth=10, ...)
NoGroup == 0         \* type_data.get('groupID', 0)

TypeIds == 1..NumIds
BpIds == NumIds..(NumIds + MaxBlueprints - 1)
UnknownId == NumIds + MaxBlueprints + 5      \* an id no generated file mentions
ScenarioIds == {10, 100, 200}                \* the ids of the documented scenario
MaxInt == 200

(***************************************************************************)
(* Python str, character by character.                                     *)
(***************************************************************************)
UpperCase ==
    << "A","B","C","D","E","F","G","H","I","J","K","L","M",
       "N","O","P","Q","R","S","T","U","V","W","X","Y","Z" >>
LowerCase ==
    << "a","b","c","d","e","f","g","h","i","j","k","l","m",
       "n","o","p","q","r","s","t","u","v","w","x","y","z" >>

Digit == << "0","1","2","3","4","5","6","7","8","9" >>

IndexIn(seq, c) == CHOOSE i \in DOMAIN seq : seq[i] = c
IsUpper(c) == \E i \in DOMAIN UpperCase : UpperCase[i] = c
IsLower(c) == \E i \in DOMAIN LowerCase : LowerCase[i] = c
IsDigit(c) == \E i \in DOMAIN Digit : Digit[i] = c

\* ord(c): the code point str comparison orders by.
Ord(c) ==
    IF IsUpper(c) THEN 64 + IndexIn(UpperCase, c)
    ELSE IF IsLower(c) THEN 96 + IndexIn(LowerCase, c)
    ELSE IF IsDigit(c) THEN 47 + IndexIn(Digit, c)
    ELSE 32

\* str.lower()
LowerChar(c) == IF IsUpper(c) THEN LowerCase[IndexIn(UpperCase, c)] ELSE c
Lower(s) == [i \in DOMAIN s |-> LowerChar(s[i])]

\* `x in s` for two str
Contains(s, x) ==
    \E i \in 0..(Len(s) - Len(x)) : SubSeq(s, i + 1, i + Len(x)) = x

\* any(x in s for x in words)
ContainsAny(s, words) == \E x \in words : Contains(s, x)

\* s < t for two str (lexicographic by code point)
RECURSIVE StrLess(_, _)
StrLess(s, t) ==
    IF t = << >> THEN FALSE
    ELSE IF s = << >> THEN TRUE
    ELSE IF Ord(Head(s)) # Ord(Head(t)) THEN Ord(Head(s)) < Ord(Head(t))
    ELSE StrLess(Tail(s), Tail(t))

(***************************************************************************)
(* str(int) and int(str) on JSON object keys.                              *)
(***************************************************************************)
RECURSIVE Str(_)
Str(n) ==
    IF n < 10 THEN Digit[n + 1]
    ELSE Str(n \div 10) \o Digit[(n % 10) + 1]

\* The keys the extractor writes are str(id) (extract.py: tid_str = str(tid)),
\* so a numeric key is the decimal form of one integer in 0..MaxInt.
StrTable == [n \in 0..MaxInt |-> Str(n)]
NumericKeys == { StrTable[n] : n \in 0..MaxInt }
IsDigitKey(key) == key \in NumericKeys                       \* key.isdigit()
IntOf(key) == CHOOSE n \in 0..MaxInt : StrTable[n] = key     \* int(key)

(***************************************************************************)
(* Insertion-ordered dict: a sequence of entries [k |-> key, v |-> value]. *)
(***************************************************************************)
Keys(d) == { d[i].k : i \in DOMAIN d }
Has(d, key) == \E i \in DOMAIN d : d[i].k = key
Get(d, key) == d[CHOOSE i \in DOMAIN d : d[i].k = key].v
Put(d, key, val) ==
    IF Has(d, key)
    THEN [i \in DOMAIN d |-> IF d[i].k = key THEN [k |-> key, v |-> val] ELSE d[i]]
    ELSE Append(d, [k |-> key, v |-> val])
Entry(key, val) == [k |-> key, v |-> val]

\* r.get(field, default) on a JSON object modelled as a record
Field(r, field, default) == IF field \in DOMAIN r THEN r[field] ELSE default

\* dict indexed only: a function with a finite domain
FnPut(f, key, val) ==
    [x \in (DOMAIN f) \cup {key} |-> IF x = key THEN val ELSE f[x]]
EmptyFn == [x \in {} |-> 0]

(***************************************************************************)
(* The JSON files of the data directory, as json.load returns them.        *)
(*   a file:        [exists |-> FALSE]  or  [exists |-> TRUE, ...]         *)
(*   blueprints:    data: the top-level object, of one of the shapes       *)
(*                    "cache"      {'cache': [{key, value}...]}, where a   *)
(*                                 value is the JSON text of a blueprint   *)
(*                    "blueprints" {'blueprints': {id: bp}}                *)
(*                    "flat"       {id: bp}                                *)
(*   types, dogma:  entries: the items {id: record} in file order          *)
(*   ships:         data: the items, or {'ships': items}                   *)
(***************************************************************************)
NoFile == [exists |-> FALSE]

\* a JSON text is kept as the value it encodes, under a tag
JsonDumps(value) == [json |-> value]
JsonLoads(text) == text.json

CacheRow(item) == [key |-> item.k, value |-> JsonDumps(item.v)]
CacheRows(entries) == [i \in DOMAIN entries |-> CacheRow(entries[i])]
BlueprintsFile(shape, entries) ==
    [exists |-> TRUE,
     data |-> IF shape = "cache" THEN << Entry("cache", CacheRows(entries)) >>
              ELSE IF shape = "blueprints" THEN << Entry("blueprints", entries) >>
              ELSE entries]
TypesFile(entries) == [exists |-> TRUE, entries |-> entries]
ShipsFile(wrapped, entries) ==
    [exists |-> TRUE,
     data |-> IF wrapped THEN << Entry("ships", entries) >> ELSE entries]
DogmaFile(entries) == [exists |-> TRUE, entries |-> entries]

\* {typeID, quantity}: an element of an activity's materials or products list
Ref(type_id) == [typeID |-> type_id, quantity |-> 1]

RECURSIVE SortedSeq(_)
SortedSeq(S) ==
    IF S = {} THEN << >>
    ELSE LET m == CHOOSE x \in S : \A y \in S : x <= y
         IN  << m >> \o SortedSeq(S \ {m})

ActNames == << "manufacturing", "reaction", "research", "invention" >>

\* the materials or products lists of the generated files
RefLists ==
    { [i \in DOMAIN SortedSeq(S) |-> Ref(SortedSeq(S)[i])] :
        S \in { T \in SUBSET TypeIds : Cardinality(T) <= MaxRefs } }
Activities == [materials : RefLists, products : RefLists]
ActivityDicts(n) ==
    { [i \in 1..n |-> Entry(ActNames[i], acts[i])] : acts \in [1..n -> Activities] }
BlueprintRecord(bp_id, activities) ==
    [blueprintTypeID |-> bp_id, activities |-> activities]

\* the id sequences of the generated files: distinct ids of BpIds
BpIdSeqs ==
    { ids \in UNION { [1..n -> BpIds] : n \in 0..MaxBlueprints } :
        \A i, j \in DOMAIN ids : i # j => ids[i] # ids[j] }

\* the blueprint rows over the ids, with at most `budget` activities in all
RECURSIVE BlueprintRows(_, _)
BlueprintRows(ids, budget) ==
    IF ids = << >> THEN { << >> }
    ELSE UNION { { << Entry(Str(Head(ids)), BlueprintRecord(Head(ids), acts)) >> \o rest :
                     acts \in ActivityDicts(c),
                     rest \in BlueprintRows(Tail(ids), budget - c) } :
                 c \in 0..budget }
GeneratedBlueprints ==
    UNION { BlueprintRows(ids, MaxActs) : ids \in BpIdSeqs }

(***************************************************************************)
(* _load_data                                                              *)
(***************************************************************************)
\* the exists() test left out: the file is opened whether it is there or not
OpensAlways(file) == TRUE

\* if bp_file.exists(): ... open(bp_file)
Opens(file) == file.exists

\* open() of a file that is not there: FileNotFoundError
OpenRaises(file) == Opens(file) /\ ~file.exists

\* bp['blueprintTypeID'] of a cache row whose blueprint has no such key: KeyError
CacheRowRaises(row) == "blueprintTypeID" \notin DOMAIN JsonLoads(row.value)

\* 'blueprints' tested before 'cache'
ShapeOfBlueprintsFirst(bp_data) ==
    IF Has(bp_data, "blueprints") THEN "blueprints"
    ELSE IF Has(bp_data, "cache") THEN "cache"
    ELSE "flat"

\* if 'cache' in bp_data: ... elif 'blueprints' in bp_data: ... else: ...
ShapeOf(bp_data) ==
    IF Has(bp_data, "cache") THEN "cache"
    ELSE IF Has(bp_data, "blueprints") THEN "blueprints"
    ELSE "flat"

\* int(bp_id) of a key under 'blueprints' that is no number: ValueError
WrappedRaises(items) == \E i \in DOMAIN items : ~IsDigitKey(items[i].k)

LoadRaises(d) ==
    \/ OpenRaises(d.blueprints)
    \/ OpenRaises(d.types)
    \/ OpenRaises(d.ships)
    \/ OpenRaises(d.dogma)
    \/ /\ d.blueprints.exists
       /\ \/ /\ ShapeOf(d.blueprints.data) = "cache"
             /\ \E i \in DOMAIN Get(d.blueprints.data, "cache") :
                   CacheRowRaises(Get(d.blueprints.data, "cache")[i])
          \/ /\ ShapeOf(d.blueprints.data) = "blueprints"
             /\ WrappedRaises(Get(d.blueprints.data, "blueprints"))

RECURSIVE LoadCache(_, _)
LoadCache(rows, blueprints) ==
    IF rows = << >> THEN blueprints
    ELSE LET bp == JsonLoads(Head(rows).value)
         IN  LoadCache(Tail(rows), Put(blueprints, bp.blueprintTypeID, bp))

RECURSIVE LoadWrapped(_, _)
LoadWrapped(items, blueprints) ==
    IF items = << >> THEN blueprints
    ELSE LoadWrapped(Tail(items),
                     Put(blueprints, IntOf(Head(items).k), Head(items).v))

RECURSIVE LoadFlat(_, _)
LoadFlat(items, blueprints) ==
    IF items = << >> THEN blueprints
    ELSE LoadFlat(Tail(items),
                  IF IsDigitKey(Head(items).k)
                  THEN Put(blueprints, IntOf(Head(items).k), Head(items).v)
                  ELSE blueprints)

LoadBlueprints(file) ==
    IF ~Opens(file) THEN << >>
    ELSE IF ShapeOf(file.data) = "cache"
         THEN LoadCache(Get(file.data, "cache"), << >>)
    ELSE IF ShapeOf(file.data) = "blueprints"
         THEN LoadWrapped(Get(file.data, "blueprints"), << >>)
    ELSE LoadFlat(file.data, << >>)

LoadMapping(file) == IF Opens(file) THEN file.entries ELSE << >>

(***************************************************************************)
(* _build_dependency_graph                                                 *)
(*   self: [type_to_blueprint, blueprint_materials, blueprint_products,    *)
(*          categories]                                                    *)
(***************************************************************************)
TypeIdsOf(refs) == { refs[i].typeID : i \in DOMAIN refs }

\* prod['typeID'], mat['typeID'] of an entry that has no such key: KeyError
RefRaises(refs) == \E i \in DOMAIN refs : "typeID" \notin DOMAIN refs[i]
ActivityRaises(activity) ==
    \/ RefRaises(Field(activity, "products", << >>))
    \/ RefRaises(Field(activity, "materials", << >>))
BuildRaises(blueprints) ==
    \E i \in DOMAIN blueprints :
        LET activities == Field(blueprints[i].v, "activities", << >>)
        IN  \E j \in DOMAIN activities : ActivityRaises(activities[j].v)

\* a product already mapped keeps its first blueprint
MapProductsKeepFirst(type_to_blueprint, products, bp_id) ==
    [x \in (DOMAIN type_to_blueprint) \cup TypeIdsOf(products) |->
        IF x \in DOMAIN type_to_blueprint THEN type_to_blueprint[x] ELSE bp_id]

\* for prod in products: self.type_to_blueprint[prod['typeID']] = bp_id
MapProducts(type_to_blueprint, products, bp_id) ==
    [x \in (DOMAIN type_to_blueprint) \cup TypeIdsOf(products) |->
        IF x \in TypeIdsOf(products) THEN bp_id ELSE type_to_blueprint[x]]

\* the guard left out: both entries start as set() at every activity
NeedsEntryAlways(blueprint_materials, bp_id) == TRUE

\* if bp_id not in self.blueprint_materials: both entries start as set()
NeedsEntry(blueprint_materials, bp_id) == bp_id \notin DOMAIN blueprint_materials

AddAll(index, bp_id, ids) == [index EXCEPT ![bp_id] = @ \cup ids]

\* the product mapping moved under the else of the guard: a blueprint's
\* products are mapped only once the blueprint has its entries
BuildActivityMapsLate(self, bp_id, activity) ==
    LET products  == Field(activity, "products", << >>)
        materials == Field(activity, "materials", << >>)
        fresh == NeedsEntry(self.blueprint_materials, bp_id)
        t2b   == IF fresh THEN self.type_to_blueprint
                 ELSE MapProducts(self.type_to_blueprint, products, bp_id)
        bm    == IF fresh THEN FnPut(self.blueprint_materials, bp_id, {})
                 ELSE self.blueprint_materials
        bpr   == IF fresh THEN FnPut(self.blueprint_products, bp_id, {})
                 ELSE self.blueprint_products
    IN  [self EXCEPT !.type_to_blueprint = t2b,
                     !.blueprint_materials = AddAll(bm, bp_id, TypeIdsOf(materials)),
                     !.blueprint_products = AddAll(bpr, bp_id, TypeIdsOf(products))]

\* the entries created only for an activity that lists materials
BuildActivityNoEntry(self, bp_id, activity) ==
    LET products  == Field(activity, "products", << >>)
        materials == Field(activity, "materials", << >>)
        t2b   == MapProducts(self.type_to_blueprint, products, bp_id)
        fresh == materials # << >> /\ NeedsEntry(self.blueprint_materials, bp_id)
        bm    == IF fresh THEN FnPut(self.blueprint_materials, bp_id, {})
                 ELSE self.blueprint_materials
        bpr   == IF fresh THEN FnPut(self.blueprint_products, bp_id, {})
                 ELSE self.blueprint_products
        has   == bp_id \in DOMAIN bm
    IN  [self EXCEPT !.type_to_blueprint = t2b,
                     !.blueprint_materials =
                         IF has THEN AddAll(bm, bp_id, TypeIdsOf(materials)) ELSE bm,
                     !.blueprint_products =
                         IF has THEN AddAll(bpr, bp_id, TypeIdsOf(products)) ELSE bpr]

BuildActivity(self, bp_id, activity) ==
    LET products  == Field(activity, "products", << >>)
        materials == Field(activity, "materials", << >>)
        t2b   == MapProducts(self.type_to_blueprint, products, bp_id)
        fresh == NeedsEntry(self.blueprint_materials, bp_id)
        bm    == IF fresh THEN FnPut(self.blueprint_materials, bp_id, {})
                 ELSE self.blueprint_materials
        bpr   == IF fresh THEN FnPut(self.blueprint_products, bp_id, {})
                 ELSE self.blueprint_products
    IN  [self EXCEPT !.type_to_blueprint = t2b,
                     !.blueprint_materials = AddAll(bm, bp_id, TypeIdsOf(materials)),
                     !.blueprint_products = AddAll(bpr, bp_id, TypeIdsOf(products))]

RECURSIVE BuildActivities(_, _, _)
BuildActivities(self, bp_id, activities) ==
    IF activities = << >> THEN self
    ELSE BuildActivities(BuildActivity(self, bp_id, Head(activities).v),
                         bp_id, Tail(activities))

BuildBlueprint(self, bp_id, bp) ==
    BuildActivities(
        [self EXCEPT !.categories.blueprints = @ \cup {bp_id}],
        bp_id, Field(bp, "activities", << >>))

RECURSIVE BuildDependencyGraph(_, _)
BuildDependencyGraph(self, blueprints) ==
    IF blueprints = << >> THEN self
    ELSE BuildDependencyGraph(
             BuildBlueprint(self, Head(blueprints).k, Head(blueprints).v),
             Tail(blueprints))

(***************************************************************************)
(* _categorize_types                                                       *)
(***************************************************************************)
CategoryNames ==
    { "ships", "modules", "ammo", "materials", "components", "blueprints",
      "ores", "fuel" }
NoCategories ==
    [ships |-> {}, modules |-> {}, ammo |-> {}, materials |-> {},
     components |-> {}, blueprints |-> {}, ores |-> {}, fuel |-> {}]

\* Frigate, Cruiser, Shuttle, Corvette, Industrial, Destroyer
ship_groups == {25, 26, 31, 237, 419, 420}

BlueprintWord == <<"B","l","u","e","p","r","i","n","t">>
OreWords ==
    { <<"O","r","e">>,
      <<"M","i","n","e","r","a","l">>,
      <<"Y","o","u","n","g"," ","C","r","u","d","e">>,
      <<"F","e","r","a","l"," ","E","c","h","o">>,
      <<"S","a","l","v","a","g","e","d">>,
      <<"A","e","s","t","a","s","i","u","m">> }
FuelWords ==
    { <<"F","u","e","l">>,
      <<"S","O","F">>,
      <<"S","m","a","r","t"," ","F","u","e","l">> }
AmmoWords ==
    { <<"C","h","a","r","g","e">>,
      <<"M","i","s","s","i","l","e">>,
      <<"A","m","m","o">>,
      <<"R","o","u","n","d">> }
WeaponWords ==
    { <<"D","i","s","i","n","t","e","g","r","a","t","o","r">>,
      <<"B","e","a","m">>,
      <<"T","o","r","p","e","d","o">>,
      <<"L","a","u","n","c","h","e","r">>,
      <<"T","u","r","r","e","t">>,
      <<"C","a","n","n","o","n">>,
      <<"B","l","a","s","t","e","r">>,
      <<"R","a","i","l","g","u","n">>,
      <<"A","r","t","i","l","l","e","r","y">> }
DefenseWords ==
    { <<"F","i","e","l","d"," ","A","r","r","a","y">>,
      <<"S","h","i","e","l","d">>,
      <<"A","r","m","o","r">>,
      <<"H","u","l","l"," ","R","e","p","a","i","r">>,
      <<"H","a","r","d","e","n","e","r">>,
      <<"R","e","p","a","i","r","e","r">>,
      <<"P","l","a","t","e","s">> }
PropulsionWords ==
    { <<"A","f","t","e","r","b","u","r","n","e","r">>,
      <<"M","i","c","r","o","w","a","r","p","d","r","i","v","e">>,
      <<"M","W","D">>,
      <<"E","n","g","i","n","e">>,
      <<"P","r","o","p","u","l","s","i","o","n">>,
      <<"T","h","r","u","s","t","e","r">> }
ElectronicWords ==
    { <<"S","e","n","s","o","r">>,
      <<"S","c","a","n","n","e","r">>,
      <<"S","c","r","a","m","b","l","e","r">>,
      <<"D","i","s","r","u","p","t","o","r">>,
      <<"W","e","b">>,
      <<"E","C","M">>,
      <<"E","C","C","M">>,
      <<"T","r","a","c","k","i","n","g">>,
      <<"T","a","r","g","e","t">> }
MiningWords ==
    { <<"M","i","n","i","n","g"," ","L","e","n","s">>,
      <<"M","i","n","i","n","g"," ","G","e","l">>,
      <<"M","i","n","e","r">>,
      <<"S","t","r","i","p">>,
      <<"H","a","r","v","e","s","t","e","r">>,
      <<"T","r","a","c","t","o","r">>,
      <<"C","a","r","g","o"," ","G","r","i","d">> }

\* the ammo rule tried before the ores and fuel rules
FallbackAlwaysMaterials(tid, type_to_blueprint) == "materials"

\* if tid in self.type_to_blueprint: components, else: materials
Fallback(tid, type_to_blueprint) ==
    IF tid \in DOMAIN type_to_blueprint THEN "components" ELSE "materials"

RuleCategoryAmmoFirst(tid, type_data, type_to_blueprint) ==
    LET group_id  == Field(type_data, "groupID", NoGroup)
        type_name == Field(type_data, "typeName", << >>)
    IN  IF group_id \in ship_groups THEN "ships"
        ELSE IF Contains(type_name, BlueprintWord) THEN "blueprints"
        ELSE IF ContainsAny(type_name, AmmoWords) THEN "ammo"
        ELSE IF ContainsAny(type_name, OreWords) THEN "ores"
        ELSE IF ContainsAny(type_name, FuelWords) THEN "fuel"
        ELSE IF ContainsAny(type_name, WeaponWords) THEN "modules"
        ELSE IF ContainsAny(type_name, DefenseWords) THEN "modules"
        ELSE IF ContainsAny(type_name, PropulsionWords) THEN "modules"
        ELSE IF ContainsAny(type_name, ElectronicWords) THEN "modules"
        ELSE IF ContainsAny(type_name, MiningWords) THEN "modules"
        ELSE Fallback(tid, type_to_blueprint)

\* the category the rule loop adds tid to
RuleCategory(tid, type_data, type_to_blueprint) ==
    LET group_id  == Field(type_data, "groupID", NoGroup)
        type_name == Field(type_data, "typeName", << >>)
    IN  IF group_id \in ship_groups THEN "ships"
        ELSE IF Contains(type_name, BlueprintWord) THEN "blueprints"
        ELSE IF ContainsAny(type_name, OreWords) THEN "ores"
        ELSE IF ContainsAny(type_name, FuelWords) THEN "fuel"
        ELSE IF ContainsAny(type_name, AmmoWords) THEN "ammo"
        ELSE IF ContainsAny(type_name, WeaponWords) THEN "modules"
        ELSE IF ContainsAny(type_name, DefenseWords) THEN "modules"
        ELSE IF ContainsAny(type_name, PropulsionWords) THEN "modules"
        ELSE IF ContainsAny(type_name, ElectronicWords) THEN "modules"
        ELSE IF ContainsAny(type_name, MiningWords) THEN "modules"
        ELSE Fallback(tid, type_to_blueprint)

RECURSIVE CategorizeLoop(_, _, _)
CategorizeLoop(categories, types, type_to_blueprint) ==
    IF types = << >> THEN categories
    ELSE LET tid == IntOf(Head(types).k)
             cat == RuleCategory(tid, Head(types).v, type_to_blueprint)
         IN  CategorizeLoop([categories EXCEPT ![cat] = @ \cup {tid}],
                            Tail(types), type_to_blueprint)

ShipsPostPassSkipped(categories, ships) == categories

\* for tid_str in self.ships: if tid_str.isdigit(): ships.add(int(tid_str))
ShipsPostPass(categories, ships) ==
    [categories EXCEPT
        !.ships = @ \cup { IntOf(key) : key \in { k \in Keys(ships) : IsDigitKey(k) } }]

CategorizeTypes(self, types, ships) ==
    [self EXCEPT !.categories =
        ShipsPostPass(CategorizeLoop(self.categories, types, self.type_to_blueprint),
                      ships)]

(***************************************************************************)
(* get_dependencies                                                        *)
(*   A Python set iterates in an order the language leaves open: `ord`     *)
(*   lists the ids in the order the materials loop meets them.             *)
(***************************************************************************)
\* the depth test off by one: depth < 0
StopsHereBelowZero(type_id, depth, visited) == depth < 0 \/ type_id \in visited

\* if depth <= 0 or type_id in visited: return set()
StopsHere(type_id, depth, visited) == depth <= 0 \/ type_id \in visited

\* dependencies = set(): the type itself left out
OwnEntryMissing(type_id) == {}

\* dependencies = {type_id}
OwnEntry(type_id) == {type_id}

\* the products index read in place of the materials index
MaterialsOfProducts(self, bp_id) ==
    IF bp_id \in DOMAIN self.blueprint_products
    THEN self.blueprint_products[bp_id] ELSE {}

\* self.blueprint_materials.get(bp_id, set())
MaterialsOf(self, bp_id) ==
    IF bp_id \in DOMAIN self.blueprint_materials
    THEN self.blueprint_materials[bp_id] ELSE {}

\* the recursive call made with the caller's own depth
NextDepthSame(depth) == depth

\* self.get_dependencies(mat_id, depth - 1, visited)
NextDepth(depth) == depth - 1

\* the elements of S in the order of ord
InOrder(S, ord) == SelectSeq(ord, LAMBDA x : x \in S)

\* what the recursive call returned is thrown away
MergeDropped(dependencies, sub_deps) == dependencies

\* dependencies.update(sub_deps)
Merge(dependencies, sub_deps) == dependencies \cup sub_deps

RECURSIVE GetDependencies(_, _, _, _, _)
RECURSIVE MaterialsLoop(_, _, _, _, _, _)
GetDependencies(self, type_id, depth, visited, ord) ==
    IF StopsHere(type_id, depth, visited)
    THEN [deps |-> {}, visited |-> visited]
    ELSE IF type_id \in DOMAIN self.type_to_blueprint
    THEN LET bp_id == self.type_to_blueprint[type_id]
         IN  MaterialsLoop(self, InOrder(MaterialsOf(self, bp_id), ord), depth,
                           visited \cup {type_id}, ord,
                           OwnEntry(type_id) \cup {bp_id})
    ELSE [deps |-> OwnEntry(type_id), visited |-> visited \cup {type_id}]
MaterialsLoop(self, materials, depth, visited, ord, dependencies) ==
    IF materials = << >>
    THEN [deps |-> dependencies, visited |-> visited]
    ELSE LET mat_id == Head(materials)
             sub == GetDependencies(self, mat_id, NextDepth(depth), visited, ord)
         IN  MaterialsLoop(self, Tail(materials), depth, sub.visited, ord,
                           Merge(dependencies \cup {mat_id}, sub.deps))

(***************************************************************************)
(* search_types                                                            *)
(***************************************************************************)
\* the name compared as written: query_lower in name
MatchesCaseSensitive(name, query) == name # << >> /\ Contains(name, Lower(query))

\* name and query_lower in name.lower()
Matches(name, query) == name # << >> /\ Contains(Lower(name), Lower(query))

\* a result dict; a field whose value is None is left out of the record
TypeResult(key, type_data) ==
    LET base == [typeID |-> IntOf(key),
                 typeName |-> type_data.typeName,
                 source |-> "types"]
    IN  IF "groupID" \in DOMAIN type_data
        THEN [typeID |-> base.typeID, typeName |-> base.typeName,
              source |-> base.source, groupID |-> type_data.groupID]
        ELSE base
ShipResult(key, ship_data) ==
    LET base == [typeID |-> IntOf(key),
                 typeName |-> ship_data.typeName,
                 source |-> "ships"]
    IN  IF "groupID" \in DOMAIN ship_data
        THEN [typeID |-> base.typeID, typeName |-> base.typeName,
              source |-> base.source, groupID |-> ship_data.groupID]
        ELSE base

RECURSIVE SearchInTypes(_, _, _)
SearchInTypes(types, query, results) ==
    IF types = << >> THEN results
    ELSE LET name == Field(Head(types).v, "typeName", << >>)
         IN  SearchInTypes(Tail(types), query,
                 IF Matches(name, query)
                 THEN Append(results, TypeResult(Head(types).k, Head(types).v))
                 ELSE results)

\* the test for an earlier result left out
AlreadyInNever(results, key) == FALSE

\* if not any(r['typeID'] == int(tid_str) for r in results)
AlreadyIn(results, key) == \E i \in DOMAIN results : results[i].typeID = IntOf(key)

RECURSIVE SearchInShips(_, _, _)
SearchInShips(ships, query, results) ==
    IF ships = << >> THEN results
    ELSE LET name == Field(Head(ships).v, "typeName", << >>)
         IN  SearchInShips(Tail(ships), query,
                 IF Matches(name, query) /\ ~AlreadyIn(results, Head(ships).k)
                 THEN Append(results, ShipResult(Head(ships).k, Head(ships).v))
                 ELSE results)

\* sorted(results, key=lambda x: x['typeName']): a stable sort
RECURSIVE InsertByName(_, _)
InsertByName(sorted, r) ==
    IF sorted = << >> THEN << r >>
    ELSE IF StrLess(r.typeName, Head(sorted).typeName)
    THEN << r >> \o sorted
    ELSE << Head(sorted) >> \o InsertByName(Tail(sorted), r)
RECURSIVE SortedByName(_)
SortedByName(results) ==
    IF results = << >> THEN << >>
    ELSE InsertByName(SortedByName(SubSeq(results, 1, Len(results) - 1)),
                      results[Len(results)])

SearchTypes(types, ships, query) ==
    SortedByName(SearchInShips(ships, query, SearchInTypes(types, query, << >>)))

(***************************************************************************)
(* export_selection                                                        *)
(***************************************************************************)
\* include_dependencies not consulted: the dependencies always added
SelectedAlwaysExpanded(self, type_ids, include_dependencies, ord) ==
    LET requested == { type_ids[i] : i \in DOMAIN type_ids }
    IN  requested \cup
        UNION { GetDependencies(self, tid, DefaultDepth, {}, ord).deps :
                  tid \in requested }

\* selected = set(type_ids), plus get_dependencies(tid) for each tid
Selected(self, type_ids, include_dependencies, ord) ==
    LET requested == { type_ids[i] : i \in DOMAIN type_ids }
    IN  IF include_dependencies
        THEN requested \cup
             UNION { GetDependencies(self, tid, DefaultDepth, {}, ord).deps :
                       tid \in requested }
        ELSE requested

\* the membership test left out: every entry of the mapping is written
SectionOfWholeMapping(mapping, selected) ==
    [key \in Keys(mapping) |-> Get(mapping, key)]

\* output[section][tid_str] = mapping[tid_str] for the selected ids it holds
SectionOf(mapping, selected) ==
    [key \in { Str(tid) : tid \in selected } \cap Keys(mapping) |-> Get(mapping, key)]

\* output['blueprints'][str(bp_id)] = self.blueprints[bp_id]
BlueprintSection(self, bps, selected) ==
    LET producers == { self.type_to_blueprint[tid] :
                         tid \in selected \cap DOMAIN self.type_to_blueprint }
    IN  [key \in { Str(bp_id) : bp_id \in producers } |->
            Get(bps, CHOOSE bp_id \in producers : Str(bp_id) = key)]

ExportSelection(self, bps, tps, shps, type_ids, include_dependencies, ord) ==
    LET selected == Selected(self, type_ids, include_dependencies, ord)
    IN  [meta |-> [selected_count |-> Len(type_ids),
                   total_with_dependencies |-> Cardinality(selected),
                   include_dependencies |-> include_dependencies],
         types |-> SectionOf(tps, selected),
         ships |-> SectionOf(shps, selected),
         blueprints |-> BlueprintSection(self, bps, selected)]

(***************************************************************************)
(* _get_type_name                                                          *)
(***************************************************************************)
\* str(type_id), character by character
RECURSIVE Chars(_)
Chars(n) ==
    IF n < 10 THEN << Digit[n + 1] >>
    ELSE Chars(n \div 10) \o << Digit[(n % 10) + 1] >>

\* f'Type {type_id}'
Placeholder(type_id) == <<"T","y","p","e"," ">> \o Chars(type_id)

GetTypeName(tps, shps, type_id) ==
    LET tid_str == Str(type_id)
    IN  IF Has(shps, tid_str)
        THEN Field(Get(shps, tid_str), "typeName", Placeholder(type_id))
        ELSE IF Has(tps, tid_str)
        THEN Field(Get(tps, tid_str), "typeName", Placeholder(type_id))
        ELSE Placeholder(type_id)

(***************************************************************************)
(* get_full_chain                                                          *)
(*   `ord` lists the ids in the order the loops over current_level and     *)
(*   over materials meet them.                                             *)
(***************************************************************************)
\* if tid in visited: continue
SkipsVisited(tid, visited) == tid \in visited

\* the materials index read under the type id, not under its blueprint
ChainMaterialsByTypeId(self, tid) ==
    IF tid \in DOMAIN self.type_to_blueprint
    THEN IF tid \in DOMAIN self.blueprint_materials
         THEN self.blueprint_materials[tid] ELSE {}
    ELSE {}

\* if tid in self.type_to_blueprint: self.blueprint_materials.get(bp_id, set())
ChainMaterials(self, tid) ==
    IF tid \in DOMAIN self.type_to_blueprint
    THEN LET bp_id == self.type_to_blueprint[tid]
         IN  IF bp_id \in DOMAIN self.blueprint_materials
             THEN self.blueprint_materials[bp_id] ELSE {}
    ELSE {}

\* the tag taken from the materials index: true for a blueprint id
MatCraftableByMaterials(self, mat_id) == mat_id \in DOMAIN self.blueprint_materials

\* 'craftable': mat_id in self.type_to_blueprint
MatCraftable(self, mat_id) == mat_id \in DOMAIN self.type_to_blueprint

\* the flag taken from the materials index: true for a blueprint id
IsCraftableByMaterials(self, tid) == tid \in DOMAIN self.blueprint_materials

\* 'craftable': tid in self.type_to_blueprint
IsCraftable(self, tid) == tid \in DOMAIN self.type_to_blueprint

MatInfo(self, tps, shps, mat_id) ==
    [typeID |-> mat_id,
     typeName |-> GetTypeName(tps, shps, mat_id),
     craftable |-> MatCraftable(self, mat_id)]

TypeInfo(self, tps, shps, tid, materials) ==
    [typeID |-> tid,
     typeName |-> GetTypeName(tps, shps, tid),
     craftable |-> IsCraftable(self, tid),
     materials |-> [i \in DOMAIN materials |-> MatInfo(self, tps, shps, materials[i])]]

\* no material is queued for the next level
QueuesNothing(mat_id, visited) == FALSE

\* if mat_id not in visited: next_level.add(mat_id)
Queues(mat_id, visited) == mat_id \notin visited

\* the level appended whether it has entries or not
KeepsLevelAlways(level_data) == TRUE

\* if level_data: chain['levels'].append(level_data)
KeepsLevel(level_data) == level_data # << >>

\* the body of `while current_level`: for tid in current_level
RECURSIVE ChainLevel(_, _, _, _, _, _, _, _)
ChainLevel(self, tps, shps, todo, visited, ord, level_data, next_level) ==
    IF todo = << >>
    THEN [level_data |-> level_data, next_level |-> next_level, visited |-> visited]
    ELSE LET tid == Head(todo)
         IN  IF SkipsVisited(tid, visited)
             THEN ChainLevel(self, tps, shps, Tail(todo), visited, ord,
                             level_data, next_level)
             ELSE LET seen == visited \cup {tid}
                      materials == InOrder(ChainMaterials(self, tid), ord)
                      queued == { m \in { materials[i] : i \in DOMAIN materials } :
                                    Queues(m, seen) }
                  IN  ChainLevel(self, tps, shps, Tail(todo), seen, ord,
                                 Append(level_data,
                                        TypeInfo(self, tps, shps, tid, materials)),
                                 next_level \cup queued)

RECURSIVE ChainLevels(_, _, _, _, _, _)
ChainLevels(self, tps, shps, current_level, visited, ord) ==
    IF current_level = {} THEN << >>
    ELSE LET lv == ChainLevel(self, tps, shps, InOrder(current_level, ord),
                              visited, ord, << >>, {})
         IN  (IF KeepsLevel(lv.level_data) THEN << lv.level_data >> ELSE << >>)
             \o ChainLevels(self, tps, shps, lv.next_level, lv.visited, ord)

GetFullChain(self, tps, shps, type_id, ord) ==
    [target |-> type_id,
     target_name |-> GetTypeName(tps, shps, type_id),
     levels |-> ChainLevels(self, tps, shps, {type_id}, {}, ord)]

(***************************************************************************)
(* list_category, export_category and the four exports it dispatches to.   *)
(*   A Python dict is an object: `dict(d)` makes a new one, a plain        *)
(*   reference is the object itself, and an item assignment through a      *)
(*   reference changes the object it refers to.  A reference is            *)
(*   [alias, obj]: alias tells whether it is the mapping's own record.     *)
(***************************************************************************)
ListItem(tps, shps, tid) == [typeID |-> tid, typeName |-> GetTypeName(tps, shps, tid)]

\* the unknown-category test left out: the lookup answers with no ids
KnownCategoryAlways(self, category) == TRUE

\* category in self.categories
KnownCategory(self, category) == category \in DOMAIN self.categories

CategoryIds(self, category) ==
    IF category \in DOMAIN self.categories THEN self.categories[category] ELSE {}

\* `ord` lists the ids of the category in the order the loop meets them
ListCategory(self, tps, shps, category, ord) ==
    IF ~KnownCategory(self, category) THEN << >>
    ELSE LET ids == InOrder(CategoryIds(self, category), ord)
         IN  SortedByName([i \in DOMAIN ids |-> ListItem(tps, shps, ids[i])])

\* self.types[tid_str] itself, not a copy
DictSame(mapping, key) == [alias |-> TRUE, obj |-> Get(mapping, key)]

\* dict(self.types[tid_str])
DictCopy(mapping, key) == [alias |-> FALSE, obj |-> Get(mapping, key)]

SetField(r, field, val) ==
    [x \in (DOMAIN r) \cup {field} |-> IF x = field THEN val ELSE r[x]]

\* ref['dogmaAttributes'] = val: the object written, and the mapping after it
SetDogma(ref, mapping, key, val) ==
    LET obj == SetField(ref.obj, "dogmaAttributes", val)
    IN  [obj |-> obj,
         mapping |-> IF ref.alias THEN Put(mapping, key, obj) ELSE mapping]

\* the loop of export_modules_only and of export_types_only
RECURSIVE AnnotateLoop(_, _, _, _)
AnnotateLoop(ids, tps, dogma, output) ==
    IF ids = << >> THEN [output |-> output, types |-> tps]
    ELSE LET tid_str == Str(Head(ids))
         IN  IF ~Has(tps, tid_str)
             THEN AnnotateLoop(Tail(ids), tps, dogma, output)
             ELSE LET type_data == DictCopy(tps, tid_str)
                      set == IF Has(dogma, tid_str)
                             THEN SetDogma(type_data, tps, tid_str, Get(dogma, tid_str))
                             ELSE [obj |-> type_data.obj, mapping |-> tps]
                  IN  AnnotateLoop(Tail(ids), set.mapping, dogma,
                                   FnPut(output, tid_str, set.obj))

ExportModulesOnly(self, tps, dogma, ord) ==
    AnnotateLoop(InOrder(self.categories.modules, ord), tps, dogma, EmptyFn)

ExportTypesOnly(type_ids, tps, dogma) == AnnotateLoop(type_ids, tps, dogma, EmptyFn)

\* ships first, the types record when the id is no key of self.ships
ExportShipsOnly(self, tps, shps) ==
    LET keys == { Str(tid) : tid \in self.categories.ships }
    IN  [key \in keys \cap (Keys(shps) \cup Keys(tps)) |->
            IF Has(shps, key) THEN Get(shps, key) ELSE Get(tps, key)]

\* json.dump(self.blueprints): the int keys are written as str
DumpBlueprints(bps) ==
    [key \in { Str(k) : k \in Keys(bps) } |->
        Get(bps, CHOOSE k \in Keys(bps) : Str(k) = key)]

\* [none, value, wrote, written, types]: the value returned (none: it is
\* None), whether output_file was written and with what, self.types after
ExportCategory(self, bps, tps, shps, dogma, category, ord) ==
    IF ~KnownCategory(self, category)
    THEN [none |-> TRUE, wrote |-> FALSE, types |-> tps]
    ELSE IF category = "blueprints"
    THEN [none |-> FALSE, value |-> bps, wrote |-> TRUE,
          written |-> DumpBlueprints(bps), types |-> tps]
    ELSE IF category = "ships"
    THEN LET output == ExportShipsOnly(self, tps, shps)
         IN  [none |-> FALSE, value |-> output, wrote |-> TRUE,
              written |-> output, types |-> tps]
    ELSE LET out == IF category = "modules"
                    THEN ExportModulesOnly(self, tps, dogma, ord)
                    ELSE ExportTypesOnly(InOrder(CategoryIds(self, category), ord),
                                         tps, dogma)
         IN  [none |-> FALSE, value |-> out.output, wrote |-> TRUE,
              written |-> out.output, types |-> out.types]

(***************************************************************************)
(* The resolver object and the calls in progress.                          *)
(***************************************************************************)
VARIABLES
    disk,                 \* the data directory: [blueprints, types, ships, dogma]
    blueprints,           \* self.blueprints: dict, int id -> blueprint
    types,                \* self.types: dict, str id -> type record
    ships,                \* self.ships: dict, str id -> ship record
    all_dogma,            \* self.all_dogma: dict, str id -> attribute bag
    type_to_blueprint,    \* self.type_to_blueprint: product id -> blueprint id
    blueprint_materials,  \* self.blueprint_materials: blueprint id -> set of ids
    blueprint_products,   \* self.blueprint_products: blueprint id -> set of ids
    categories,           \* self.categories: category name -> set of ids
    pc,                   \* position in __init__: new, loaded, built, ready; raised
    builds,               \* runs of _build_dependency_graph so far, and the
    first_build,          \*   graph as the first run left it
    call,                 \* the get_dependencies call of the caller
    stack,                \* its activation records, innermost last
    visited,              \* the visited set all activations share
    ret,                  \* its return value, once returned
    result,               \* the search or export that returned last:
                          \*   [op, its arguments, value, and written for
                          \*    what an export wrote to its output file]
    is_running,           \* ExtractorGUI.is_running
    extract_btn,          \* state of the extract button: "normal" or "disabled"
    status_var,           \* text of the status bar
    progress,             \* the progress bar: "hidden" or "running"
    options,              \* the check boxes that are ticked
    dialog,               \* the message box shown last
    threads,              \* live worker threads: [at, todo, extraction_count]
    started               \* threads started so far

vars ==
    << disk, blueprints, types, ships, all_dogma, type_to_blueprint,
       blueprint_materials, blueprint_products, categories, pc, builds,
       first_build, call, stack, visited, ret, result, is_running, extract_btn,
       status_var, progress, options, dialog, threads, started >>
guiVars ==
    << is_running, extract_btn, status_var, progress, options, dialog, threads,
       started >>
dataVars == << disk, blueprints, types, ships, all_dogma >>
graphVars ==
    << type_to_blueprint, blueprint_materials, blueprint_products, categories >>
callVars == << call, stack, visited, ret >>

Self ==
    [type_to_blueprint |-> type_to_blueprint,
     blueprint_materials |-> blueprint_materials,
     blueprint_products |-> blueprint_products,
     categories |-> categories]
Graph(self) ==
    [type_to_blueprint |-> self.type_to_blueprint,
     blueprint_materials |-> self.blueprint_materials,
     blueprint_products |-> self.blueprint_products]

NoCall == [active |-> FALSE]
NoRet == [done |-> FALSE]
NoResult == [op |-> "none"]
NoBuild == [done |-> FALSE]
Returned == ret.done

\* __init__ up to the call of _load_data, over the data directory d
InitOver(d) ==
    /\ disk = d
    /\ blueprints = << >>
    /\ types = << >>
    /\ ships = << >>
    /\ all_dogma = << >>
    /\ type_to_blueprint = EmptyFn
    /\ blueprint_materials = EmptyFn
    /\ blueprint_products = EmptyFn
    /\ categories = NoCategories
    /\ pc = "new"
    /\ builds = 0
    /\ first_build = NoBuild
    /\ call = NoCall
    /\ stack = << >>
    /\ visited = {}
    /\ ret = NoRet
    /\ result = NoResult
    /\ is_running = FALSE
    /\ extract_btn = "normal"
    /\ status_var = "Ready - Select data to extract"
    /\ progress = "hidden"
    /\ options = {}
    /\ dialog = "none"
    /\ threads = << >>
    /\ started = 0

(***************************************************************************)
(* The data directories the specifications start from.                     *)
(***************************************************************************)
Widget == <<"W","i","d","g","e","t">>
Tritanium == <<"T","r","i","t","a","n","i","u","m">>

\* blueprint 200: manufacturing, material 10, product 100; types 10 and 100
ScenarioBlueprints ==
    << Entry("200", BlueprintRecord(200,
         << Entry("manufacturing",
                  [materials |-> << [typeID |-> 10, quantity |-> 5] >>,
                   products |-> << [typeID |-> 100, quantity |-> 1] >>]) >>)) >>
ScenarioTypes ==
    << Entry("10", [typeName |-> Tritanium]), Entry("100", [typeName |-> Widget]) >>
ScenarioDisk ==
    [blueprints |-> BlueprintsFile("cache", ScenarioBlueprints),
     types |-> TypesFile(ScenarioTypes), ships |-> NoFile, dogma |-> NoFile]

\* a diamond: blueprint 4 makes 1 from 2 and 3, blueprint 5 makes 2 from 3
DiamondBlueprints ==
    << Entry("4", BlueprintRecord(4,
         << Entry("manufacturing",
                  [materials |-> << Ref(2), Ref(3) >>, products |-> << Ref(1) >>]) >>)),
       Entry("5", BlueprintRecord(5,
         << Entry("manufacturing",
                  [materials |-> << Ref(3) >>, products |-> << Ref(2) >>]) >>)) >>
DiamondDisk ==
    [blueprints |-> BlueprintsFile("cache", DiamondBlueprints),
     types |-> NoFile, ships |-> NoFile, dogma |-> NoFile]

\* a ladder: 1 from 2 and 3, 2 from 3, 3 from 4, 4 from 5; the blueprint
\* ids 21..24 are no type ids
Rung(bp_id, product, materials) ==
    Entry(Str(bp_id), BlueprintRecord(bp_id,
        << Entry("manufacturing",
                 [materials |-> [i \in DOMAIN materials |-> Ref(materials[i])],
                  products |-> << Ref(product) >>]) >>))
LadderBlueprints ==
    << Rung(21, 1, << 2, 3 >>), Rung(22, 2, << 3 >>),
       Rung(23, 3, << 4 >>), Rung(24, 4, << 5 >>) >>
LadderDisk ==
    [blueprints |-> BlueprintsFile("cache", LadderBlueprints),
     types |-> NoFile, ships |-> NoFile, dogma |-> NoFile]

GraphDisks ==
    { [blueprints |-> BlueprintsFile("cache", rows),
       types |-> NoFile, ships |-> NoFile, dogma |-> NoFile] :
        rows \in GeneratedBlueprints }
    \cup { ScenarioDisk, DiamondDisk, LadderDisk }


\* names and queries over a small alphabet, for the search
SearchAlphabet == { "A", "a", "b" }
SearchNames == UNION { [1..n -> SearchAlphabet] : n \in 0..MaxNameLen }
SearchRecords == { [typeName |-> name] : name \in SearchNames } \cup { [groupID |-> 25] }
Queries == SearchNames \cup { Widget }

\* the items of a mapping file: each id of ids absent or with a record of records
RECURSIVE Items(_, _)
Items(ids, records) ==
    IF ids = << >> THEN { << >> }
    ELSE LET rest == Items(Tail(ids), records)
         IN  rest \cup { << Entry(Str(Head(ids)), r) >> \o items :
                           r \in records, items \in rest }

\* the 'meta' item an export leaves in a file
MetaItem == Entry("meta", [selected_count |-> 1])
WithMeta(items) == { items, << MetaItem >> \o items }

SearchDisks ==
    { [blueprints |-> NoFile, types |-> TypesFile(tps),
       ships |-> ShipsFile(FALSE, shps), dogma |-> NoFile] :
        tps \in Items(<< 1, 2 >>, SearchRecords),
        shps \in UNION { WithMeta(items) : items \in Items(<< 1 >>, SearchRecords) } }
    \cup { ScenarioDisk }

\* a small catalogue: plain items, a ship hull, one blueprint at most
Wolf == <<"W","o","l","f">>
CatalogRecords == { [typeName |-> Widget], [typeName |-> Wolf, groupID |-> 25] }
ShipRecords == { [typeName |-> Wolf, groupID |-> 25, groupName |-> "Frigate"] }
CatalogBlueprints ==
    { rows \in GeneratedBlueprints :
        Len(rows) <= 1 /\ \A i \in DOMAIN rows : Len(rows[i].v.activities) <= 1 }
CatalogDisks ==
    { [blueprints |-> BlueprintsFile("cache", rows), types |-> TypesFile(tps),
       ships |-> ShipsFile(FALSE, shps), dogma |-> NoFile] :
        rows \in CatalogBlueprints,
        tps \in Items(SortedSeq(TypeIds), CatalogRecords),
        shps \in UNION { WithMeta(items) : items \in Items(<< 1 >>, ShipRecords) } }

\* a resolver with a module, a hull, dogma attributes and one blueprint
Shield == <<"S","h","i","e","l","d">>
QueryRecords ==
    { [typeName |-> Widget], [typeName |-> Shield],
      [typeName |-> Wolf, groupID |-> 25] }
DogmaRecords == { [capacity |-> 5] }
QueryBlueprints ==
    { << >>,
      << Entry("3", BlueprintRecord(3,
           << Entry("manufacturing",
                    [materials |-> << Ref(2) >>, products |-> << Ref(1) >>]) >>)) >> }
QueryDisks ==
    { [blueprints |-> BlueprintsFile("cache", rows), types |-> TypesFile(tps),
       ships |-> ShipsFile(FALSE, shps), dogma |-> DogmaFile(dgm)] :
        rows \in QueryBlueprints,
        tps \in Items(<< 1, 2 >>, QueryRecords),
        shps \in UNION { WithMeta(items) : items \in Items(<< 1 >>, ShipRecords) },
        dgm \in Items(<< 1, 2 >>, DogmaRecords) }

\* names that meet several rules of the classifier, or one, or none
OreBlueprint == <<"O","r","e"," ","B","l","u","e","p","r","i","n","t">>
FuelOre == <<"F","u","e","l"," ","O","r","e">>
OreCharge == <<"O","r","e"," ","C","h","a","r","g","e">>
FuelRound == <<"F","u","e","l"," ","R","o","u","n","d">>
MissileLauncher == <<"M","i","s","s","i","l","e"," ","L","a","u","n","c","h","e","r">>
Miner == <<"M","i","n","e","r">>
ClassNames ==
    { OreBlueprint, FuelOre, OreCharge, FuelRound, MissileLauncher, Shield,
      Miner, Widget }
ClassRecords ==
    { [typeName |-> name] : name \in ClassNames }
    \cup { [typeName |-> name, groupID |-> 25] : name \in ClassNames }
    \cup { [groupID |-> 25], [groupID |-> 18] }

\* data directories where each of the four files is there or not
MadeRows == << Rung(3, 1, << 2 >>) >>
FileDisks ==
    { [blueprints |-> bpf, types |-> tpf, ships |-> shf, dogma |-> dgf] :
        bpf \in { NoFile, BlueprintsFile("cache", MadeRows),
                  BlueprintsFile("blueprints", MadeRows),
                  BlueprintsFile("flat", MadeRows) },
        tpf \in { NoFile }
                \cup { TypesFile(tps) : tps \in Items(<< 1, 2 >>, ClassRecords) },
        shf \in { NoFile }
                \cup { ShipsFile(wrapped, << Entry("1", CHOOSE r \in ShipRecords : TRUE) >>) :
                         wrapped \in BOOLEAN },
        dgf \in { NoFile, DogmaFile(<< Entry("1", CHOOSE r \in DogmaRecords : TRUE) >>) } }

\* types whose names differ in letter case only, and hulls of several kinds
TritaniumOre == <<"T","r","i","t","a","n","i","u","m"," ","O","r","e">>
CaseNames == { TritaniumOre, Lower(TritaniumOre), Widget, Lower(Widget), OreCharge }
CaseRecords ==
    { [typeName |-> name] : name \in CaseNames }
    \cup { [typeName |-> name, groupID |-> 25] : name \in CaseNames }
    \cup { [typeName |-> name, groupID |-> 18] : name \in CaseNames }
    \cup { [groupID |-> 18] }
Hull == CHOOSE r \in ShipRecords : TRUE
HullEntries ==
    { << Entry("1", Hull) >>, << MetaItem, Entry("1", Hull) >>,
      << Entry("2", [typeName |-> Widget, groupID |-> 18]) >>, << MetaItem >> }
ClassifyDisks ==
    { [blueprints |-> bpf, types |-> TypesFile(tps), ships |-> shf, dogma |-> NoFile] :
        bpf \in { NoFile, BlueprintsFile("cache", MadeRows) },
        tps \in Items(<< 1, 2 >>, CaseRecords),
        shf \in { NoFile } \cup { ShipsFile(FALSE, shps) : shps \in HullEntries } }

\* one set of blueprints in each shape of blueprints.json, the flat and the
\* wrapped shape also with a 'meta' key, the cache shape also beside a
\* 'blueprints' key that holds other blueprints
ShapeFiles(rows) ==
    { BlueprintsFile(shape, rows) : shape \in { "cache", "blueprints", "flat" } }
    \cup { [exists |-> TRUE, data |-> << MetaItem >> \o rows],
           [exists |-> TRUE, data |-> << MetaItem, Entry("blueprints", rows) >>],
           [exists |-> TRUE,
            data |-> << Entry("blueprints", MadeRows),
                        Entry("cache", CacheRows(rows)) >>] }
ShapeDisk(bpf) ==
    [blueprints |-> bpf, types |-> NoFile, ships |-> NoFile, dogma |-> NoFile]

\* records that lack a field the code reads: blueprint 3, types 1 and 2
NoFields == [x \in {} |-> 0]
WholeActivity == [materials |-> << Ref(2) >>, products |-> << Ref(1) >>]
MalformedBlueprints ==
    { BlueprintRecord(3, << Entry("manufacturing", WholeActivity) >>),
      [activities |-> << Entry("manufacturing", WholeActivity) >>],
      [blueprintTypeID |-> 3],
      BlueprintRecord(3, << Entry("manufacturing", [products |-> << Ref(1) >>]) >>),
      BlueprintRecord(3, << Entry("manufacturing", [materials |-> << Ref(2) >>]) >>),
      BlueprintRecord(3, << Entry("manufacturing",
          [materials |-> << [quantity |-> 1] >>, products |-> << Ref(1) >>]) >>),
      BlueprintRecord(3, << Entry("manufacturing",
          [materials |-> << Ref(2) >>, products |-> << [quantity |-> 1] >>]) >>) }
MalformedTypes ==
    { [typeName |-> Widget, groupID |-> 18], [typeName |-> Widget],
      [groupID |-> 25], NoFields }
MalformedDisks ==
    { [blueprints |-> BlueprintsFile(shape, << Entry("3", bp) >>),
       types |-> TypesFile(tps), ships |-> shf, dogma |-> NoFile] :
        shape \in { "cache", "flat" },
        bp \in MalformedBlueprints,
        tps \in Items(<< 1, 2 >>, MalformedTypes),
        shf \in { NoFile,
                  ShipsFile(FALSE, << Entry("1", CHOOSE r \in ShipRecords : TRUE) >>) } }

Init == \E d \in GraphDisks : InitOver(d)
InitMalformed == \E d \in MalformedDisks : InitOver(d)
InitFiles == \E d \in FileDisks : InitOver(d)
InitQueries == \E d \in QueryDisks : InitOver(d)
InitSearch == \E d \in SearchDisks : InitOver(d)
InitCatalog == \E d \in CatalogDisks : InitOver(d)
InitClassify == \E d \in ClassifyDisks : InitOver(d)
InitShapes ==
    \E rows \in GeneratedBlueprints :
        \E bpf \in ShapeFiles(rows) : InitOver(ShapeDisk(bpf))

(***************************************************************************)
(* __init__: _load_data, _build_dependency_graph, _categorize_types        *)
(***************************************************************************)
\* 'ships' in ships_data: self.ships = ships_data['ships'], else the file itself
LoadShips(file) ==
    IF ~Opens(file) THEN << >>
    ELSE IF Has(file.data, "ships") THEN Get(file.data, "ships")
    ELSE file.data

\* an exception leaves __init__: pc = "raised", and no resolver is returned
LoadData ==
    /\ pc = "new"
    /\ IF LoadRaises(disk)
       THEN /\ pc' = "raised"
            /\ UNCHANGED << blueprints, types, ships, all_dogma >>
       ELSE /\ blueprints' = LoadBlueprints(disk.blueprints)
            /\ types' = LoadMapping(disk.types)
            /\ ships' = LoadShips(disk.ships)
            /\ all_dogma' = LoadMapping(disk.dogma)
            /\ pc' = "loaded"
    /\ UNCHANGED << guiVars, disk, graphVars, builds, first_build, callVars, result >>

SetSelf(self) ==
    /\ type_to_blueprint' = self.type_to_blueprint
    /\ blueprint_materials' = self.blueprint_materials
    /\ blueprint_products' = self.blueprint_products
    /\ categories' = self.categories

BuildGraph ==
    /\ pc = "loaded"
    /\ IF BuildRaises(blueprints)
       THEN /\ pc' = "raised"
            /\ UNCHANGED << graphVars, first_build, builds >>
       ELSE /\ LET self == BuildDependencyGraph(Self, blueprints)
               IN  /\ SetSelf(self)
                   /\ first_build' = [done |-> TRUE, graph |-> Graph(self)]
            /\ builds' = 1
            /\ pc' = "built"
    /\ UNCHANGED << guiVars, dataVars, callVars, result >>

\* _build_dependency_graph run once more on the same object
BuildGraphAgain ==
    /\ pc = "built"
    /\ builds = 1
    /\ SetSelf(BuildDependencyGraph(Self, blueprints))
    /\ builds' = 2
    /\ UNCHANGED << guiVars, dataVars, pc, first_build, callVars, result >>

Categorize ==
    /\ pc = "built"
    /\ SetSelf(CategorizeTypes(Self, types, ships))
    /\ pc' = "ready"
    /\ UNCHANGED << guiVars, dataVars, builds, first_build, callVars, result >>

(***************************************************************************)
(* get_dependencies, one activation step at a time.                        *)
(*   frame: [type_id, depth, at, todo, dependencies]                       *)
(*     at = "enter": before the depth/visited test                         *)
(*     at = "loop":  in `for mat_id in materials`, todo still to iterate   *)
(***************************************************************************)
\* the orders a loop over the set S may take
RECURSIVE Orders(_)
Orders(S) ==
    IF S = {} THEN { << >> }
    ELSE UNION { { << x >> \o o : o \in Orders(S \ {x}) } : x \in S }
AllMaterials == UNION { blueprint_materials[b] : b \in DOMAIN blueprint_materials }

Mentioned ==
    Keys(blueprints) \cup (DOMAIN type_to_blueprint)
        \cup UNION { blueprint_materials[b] : b \in DOMAIN blueprint_materials }
QueryIds == Mentioned \cup {UnknownId}
Depths == (0..SmallDepth) \cup {DefaultDepth}

Frame(type_id, depth) ==
    [type_id |-> type_id, depth |-> depth, at |-> "enter", todo |-> {},
     dependencies |-> {}]
Top == stack[Len(stack)]
SetTop(frame) == [stack EXCEPT ![Len(stack)] = frame]

\* `return value` of the innermost activation
Return(value) ==
    IF Len(stack) = 1
    THEN /\ stack' = << >>
         /\ ret' = [done |-> TRUE, value |-> value]
    ELSE /\ stack' =
             LET below == SubSeq(stack, 1, Len(stack) - 1)
             IN  [below EXCEPT ![Len(below)].dependencies = Merge(@, value)]
         /\ ret' = ret

\* the caller holds no call in progress and no value it has yet to use
Idle == pc = "ready" /\ ~call.active /\ result = NoResult

\* the caller is done with what the last call returned
Forget ==
    /\ pc = "ready"
    /\ Returned \/ (result # NoResult /\ (result.op = "get_full_chain" => result.done))
    /\ call' = NoCall
    /\ stack' = << >>
    /\ visited' = {}
    /\ ret' = NoRet
    /\ result' = NoResult
    /\ UNCHANGED << guiVars, dataVars, graphVars, pc, builds, first_build >>

\* resolver.get_dependencies(type_id, depth): visited is None, so a new set
CallGetDependencies ==
    /\ Idle
    /\ \E type_id \in QueryIds, depth \in Depths :
          /\ call' = [active |-> TRUE, type_id |-> type_id, depth |-> depth]
          /\ stack' = << Frame(type_id, depth) >>
    /\ visited' = {}
    /\ ret' = NoRet
    /\ UNCHANGED << guiVars, dataVars, graphVars, pc, builds, first_build, result >>

\* lines 221-235: the test, visited.add, dependencies, the blueprint
EnterActivation ==
    /\ stack # << >>
    /\ Top.at = "enter"
    /\ IF StopsHere(Top.type_id, Top.depth, visited)
       THEN /\ Return({})
            /\ visited' = visited
       ELSE /\ visited' = visited \cup {Top.type_id}
            /\ ret' = ret
            /\ stack' = SetTop(
                 IF Top.type_id \in DOMAIN type_to_blueprint
                 THEN LET bp_id == type_to_blueprint[Top.type_id]
                      IN  [Top EXCEPT !.at = "loop",
                                      !.dependencies = OwnEntry(Top.type_id) \cup {bp_id},
                                      !.todo = MaterialsOf(Self, bp_id)]
                 ELSE [Top EXCEPT !.at = "loop",
                                  !.dependencies = OwnEntry(Top.type_id)])
    /\ UNCHANGED << guiVars, dataVars, graphVars, pc, builds, first_build, call, result >>

\* lines 236-239: the next material, and the recursive call on it
VisitMaterial ==
    /\ stack # << >>
    /\ Top.at = "loop"
    /\ \E mat_id \in Top.todo :
          stack' = Append(
              SetTop([Top EXCEPT !.dependencies = @ \cup {mat_id},
                                 !.todo = @ \ {mat_id}]),
              Frame(mat_id, NextDepth(Top.depth)))
    /\ UNCHANGED << guiVars, dataVars, graphVars, pc, builds, first_build, call,
                    visited, ret, result >>

\* line 242: return dependencies
ReturnDependencies ==
    /\ stack # << >>
    /\ Top.at = "loop"
    /\ Top.todo = {}
    /\ Return(Top.dependencies)
    /\ UNCHANGED << guiVars, dataVars, graphVars, pc, builds, first_build, call,
                    visited, result >>

(***************************************************************************)
(* search_types and export_selection, each call one step.                  *)
(***************************************************************************)
SearchTypesCall ==
    /\ Idle
    /\ \E query \in Queries :
          result' = [op |-> "search_types", query |-> query,
                     value |-> SearchTypes(types, ships, query)]
    /\ UNCHANGED << guiVars, dataVars, graphVars, pc, builds, first_build, callVars >>

TypeKeyIds == { IntOf(key) : key \in { k \in Keys(types) : IsDigitKey(k) } }
Selections == UNION { [1..n -> QueryIds \cup TypeKeyIds] : n \in 1..MaxSelect }

ExportSelectionCall ==
    /\ Idle
    /\ \E type_ids \in Selections, include_dependencies \in BOOLEAN,
          ord \in Orders(AllMaterials) :
          LET output == ExportSelection(Self, blueprints, types, ships, type_ids,
                                        include_dependencies, ord)
          IN  result' = [op |-> "export_selection", type_ids |-> type_ids,
                         include_dependencies |-> include_dependencies,
                         value |-> output, written |-> output]
    /\ UNCHANGED << guiVars, dataVars, graphVars, pc, builds, first_build, callVars >>

\* resolver.get_full_chain(type_id)
\* resolver.get_full_chain(type_id), up to the `while` of line 258
GetFullChainCall ==
    /\ Idle
    /\ \E type_id \in QueryIds :
          result' = [op |-> "get_full_chain", type_id |-> type_id, done |-> FALSE,
                     target_name |-> GetTypeName(types, ships, type_id),
                     levels |-> << >>, visited |-> {}, current_level |-> {type_id}]
    /\ UNCHANGED << guiVars, dataVars, graphVars, pc, builds, first_build, callVars >>

ChainRunning == result.op = "get_full_chain" /\ ~result.done

\* one pass of `while current_level`, or the return once the level is empty
RunGetFullChain ==
    /\ pc = "ready"
    /\ ChainRunning
    /\ IF result.current_level = {}
       THEN result' = [op |-> "get_full_chain", type_id |-> result.type_id,
                       done |-> TRUE,
                       value |-> [target |-> result.type_id,
                                  target_name |-> result.target_name,
                                  levels |-> result.levels]]
       ELSE \E ord \in Orders(AllMaterials \cup {result.type_id}) :
              LET lv == ChainLevel(Self, types, ships,
                                   InOrder(result.current_level, ord),
                                   result.visited, ord, << >>, {})
              IN  result' = [result EXCEPT
                               !.levels = IF KeepsLevel(lv.level_data)
                                          THEN Append(@, lv.level_data) ELSE @,
                               !.visited = lv.visited,
                               !.current_level = lv.next_level]
    /\ UNCHANGED << guiVars, dataVars, graphVars, pc, builds, first_build, callVars >>

\* the eight category names, and two names that are none of them
CategoryArgs == CategoryNames \cup { "drones", "Ships" }

ListCategoryCall ==
    /\ Idle
    /\ \E category \in CategoryArgs :
       \E ord \in Orders(CategoryIds(Self, category)) :
          result' = [op |-> "list_category", category |-> category,
                     value |-> ListCategory(Self, types, ships, category, ord)]
    /\ UNCHANGED << guiVars, dataVars, graphVars, pc, builds, first_build, callVars >>

ExportCategoryCall ==
    /\ Idle
    /\ \E category \in CategoryArgs :
       \E ord \in Orders(CategoryIds(Self, category)) :
          LET out == ExportCategory(Self, blueprints, types, ships, all_dogma,
                                    category, ord)
          IN  /\ types' = out.types
              /\ result' =
                   IF out.none
                   THEN [op |-> "export_category", category |-> category,
                         none |-> TRUE, wrote |-> FALSE]
                   ELSE [op |-> "export_category", category |-> category,
                         none |-> FALSE, wrote |-> TRUE,
                         value |-> out.value, written |-> out.written]
    /\ UNCHANGED << guiVars, disk, blueprints, ships, all_dogma, graphVars, pc, builds,
                    first_build, callVars >>

Construct == LoadData \/ BuildGraph \/ Categorize
(***************************************************************************)
(* gui.py: ExtractorGUI.start_extraction on the Tk main thread and         *)
(* run_extraction on the worker thread it starts.                          *)
(*   a worker: [at, todo, extraction_count]                                *)
(*     at = "begin":   lines 311-340, the options and find_python312 read  *)
(*     at = "try":     the extraction stages of `todo`, then the report    *)
(*     at = "except":  the handler of line 609                             *)
(*     at = "finally", "release", "enable": lines 615-616, 617, 618        *)
(***************************************************************************)
Options == { "galaxy", "ships", "blueprints" }

\* the stages a run goes through, in the order of the code
Stages(need, python312) ==
    LET need_base_data == need \cap { "ships", "blueprints" } # {}
    IN  (IF "galaxy" \in need THEN << "galaxy" >> ELSE << >>)
        \o (IF need_base_data
            THEN << IF python312 THEN "bp_data" ELSE "bp_direct" >> ELSE << >>)
        \o (IF need_base_data /\ python312 THEN << "types" >> ELSE << >>)
        \o (IF "ships" \in need /\ python312 THEN << "dogma", "ships" >> ELSE << >>)
        \o (IF "blueprints" \in need THEN << "blueprints" >> ELSE << >>)

\* what a stage can do: the process ends with code 0, or with another
\* code, or the stage raises; extract_blueprints_direct handles its own
\* exceptions and is counted whatever it did
Outcomes(stage) ==
    IF stage = "bp_direct" THEN { "ok" } ELSE { "ok", "failed", "raises" }
Counts(stage, outcome) == outcome = "ok" /\ stage # "dogma"

NewWorker == [at |-> "begin", todo |-> << >>, extraction_count |-> 0]
Remove(seq, i) == SubSeq(seq, 1, i - 1) \o SubSeq(seq, i + 1, Len(seq))

\* the flag left as it is
StillRunning == TRUE

\* finally: self.is_running = False
Released == FALSE

\* a check box is ticked or cleared
ToggleOption ==
    /\ \E o \in Options :
          options' = IF o \in options THEN options \ {o} ELSE options \cup {o}
    /\ UNCHANGED << is_running, extract_btn, status_var, progress, dialog,
                    threads, started >>
    /\ UNCHANGED << dataVars, graphVars, pc, builds, first_build, callVars, result >>

StartExtraction(paths_ok) ==
    IF is_running
    THEN /\ dialog' = "Extraction is already running!"
         /\ UNCHANGED << is_running, extract_btn, status_var, progress, threads,
                         started >>
    ELSE IF options = {}
    THEN /\ dialog' = "Please select at least one data type to extract!"
         /\ UNCHANGED << is_running, extract_btn, status_var, progress, threads,
                         started >>
    ELSE IF ~paths_ok
    THEN /\ dialog' = "path error"
         /\ UNCHANGED << is_running, extract_btn, status_var, progress, threads,
                         started >>
    ELSE /\ is_running' = TRUE
         /\ extract_btn' = "disabled"
         /\ status_var' = "Extracting data..."
         /\ progress' = "running"
         /\ threads' = Append(threads, NewWorker)
         /\ started' = started + 1
         /\ dialog' = dialog

\* the button invokes its command unless it is disabled
ClickExtract ==
    /\ extract_btn = "normal"
    /\ started < MaxRuns
    /\ \E paths_ok \in BOOLEAN : StartExtraction(paths_ok)
    /\ options' = options
    /\ UNCHANGED << dataVars, graphVars, pc, builds, first_build, callVars, result >>

SetThread(i, worker) == threads' = [threads EXCEPT ![i] = worker]

WorkerBegin(i) ==
    /\ threads[i].at = "begin"
    /\ \E python312 \in BOOLEAN :
          SetThread(i, [threads[i] EXCEPT !.at = "try",
                                          !.todo = Stages(options, python312)])
    /\ UNCHANGED << is_running, extract_btn, status_var, progress, dialog >>

WorkerStage(i) ==
    /\ threads[i].at = "try"
    /\ threads[i].todo # << >>
    /\ \E outcome \in Outcomes(Head(threads[i].todo)) :
          SetThread(i,
              IF outcome = "raises" THEN [threads[i] EXCEPT !.at = "except"]
              ELSE [threads[i] EXCEPT
                      !.todo = Tail(@),
                      !.extraction_count =
                          IF Counts(Head(threads[i].todo), outcome) THEN @ + 1 ELSE @])
    /\ UNCHANGED << is_running, extract_btn, status_var, progress, dialog >>

\* lines 599-607
WorkerReport(i) ==
    /\ threads[i].at = "try"
    /\ threads[i].todo = << >>
    /\ IF threads[i].extraction_count > 0
       THEN status_var' = "Completed" /\ dialog' = "Success"
       ELSE status_var' = "Extraction failed" /\ dialog' = "Extraction failed"
    /\ SetThread(i, [threads[i] EXCEPT !.at = "finally"])
    /\ UNCHANGED << is_running, extract_btn, progress >>

\* lines 609-612
WorkerExcept(i) ==
    /\ threads[i].at = "except"
    /\ status_var' = "Error occurred"
    /\ dialog' = "An error occurred"
    /\ SetThread(i, [threads[i] EXCEPT !.at = "finally"])
    /\ UNCHANGED << is_running, extract_btn, progress >>

\* lines 615-616
WorkerFinally(i) ==
    /\ threads[i].at = "finally"
    /\ progress' = "hidden"
    /\ SetThread(i, [threads[i] EXCEPT !.at = "release"])
    /\ UNCHANGED << is_running, extract_btn, status_var, dialog >>

\* line 617
WorkerRelease(i) ==
    /\ threads[i].at = "release"
    /\ is_running' = Released
    /\ SetThread(i, [threads[i] EXCEPT !.at = "enable"])
    /\ UNCHANGED << extract_btn, status_var, progress, dialog >>

\* line 618, and the thread ends
WorkerEnable(i) ==
    /\ threads[i].at = "enable"
    /\ extract_btn' = "normal"
    /\ threads' = Remove(threads, i)
    /\ UNCHANGED << is_running, status_var, progress, dialog >>

RunExtraction ==
    /\ \E i \in DOMAIN threads :
          \/ WorkerBegin(i)
          \/ WorkerStage(i)
          \/ WorkerReport(i)
          \/ WorkerExcept(i)
          \/ WorkerFinally(i)
          \/ WorkerRelease(i)
          \/ WorkerEnable(i)
    /\ UNCHANGED << options, started >>
    /\ UNCHANGED << dataVars, graphVars, pc, builds, first_build, callVars, result >>

RunGetDependencies == EnterActivation \/ VisitMaterial \/ ReturnDependencies

Next ==
    \/ Construct
    \/ CallGetDependencies
    \/ RunGetDependencies
    \/ GetFullChainCall
    \/ RunGetFullChain
    \/ Forget
Spec == Init /\ [][Next]_vars

\* the interpreter runs a call in progress to its return
FairSpec == Spec /\ WF_vars(RunGetDependencies)

\* and get_full_chain to its return
FairSpecChain == Spec /\ WF_vars(RunGetFullChain)

\* the window: the user at the check boxes and the button, and the workers
InitGui == InitOver([blueprints |-> NoFile, types |-> NoFile, ships |-> NoFile,
                     dogma |-> NoFile])
NextGui == ToggleOption \/ ClickExtract \/ RunExtraction
SpecGui == InitGui /\ [][NextGui]_vars

NextSearch == Construct \/ SearchTypesCall \/ Forget
SpecSearch == InitSearch /\ [][NextSearch]_vars

NextExport == Construct \/ ExportSelectionCall \/ Forget
SpecExport == InitCatalog /\ [][NextExport]_vars

\* every query and export of the resolver, in any sequence
NextQueries ==
    \/ Construct
    \/ CallGetDependencies
    \/ RunGetDependencies
    \/ GetFullChainCall
    \/ RunGetFullChain
    \/ SearchTypesCall
    \/ ListCategoryCall
    \/ ExportSelectionCall
    \/ ExportCategoryCall
    \/ Forget
SpecQueries == InitQueries /\ [][NextQueries]_vars

\* the construction alone
NextLoad == Construct
SpecLoad == InitFiles /\ [][NextLoad]_vars

\* __init__ runs to its end
FairSpecLoad == SpecLoad /\ WF_vars(Construct)

\* the construction over names in both letter cases and several hulls
NextClassify == Construct
SpecClassify == InitClassify /\ [][NextClassify]_vars

\* loading and graph build over the shapes of blueprints.json
NextShapes == LoadData \/ BuildGraph
SpecShapes == InitShapes /\ [][NextShapes]_vars

\* construction over records that lack fields, and queries on the result
NextMalformed ==
    \/ Construct
    \/ CallGetDependencies
    \/ RunGetDependencies
    \/ GetFullChainCall
    \/ RunGetFullChain
    \/ SearchTypesCall
    \/ ListCategoryCall
    \/ Forget
SpecMalformed == InitMalformed /\ [][NextMalformed]_vars

NextBuild == LoadData \/ BuildGraph \/ BuildGraphAgain
SpecBuild == Init /\ [][NextBuild]_vars

(***************************************************************************)
(* Properties.                                                             *)
(***************************************************************************)
Craftable(type_id) == type_id \in DOMAIN type_to_blueprint

\* the material ids the blueprint record lists, over all its activities
ListedMaterials(bp_id) ==
    LET activities == Field(Get(blueprints, bp_id), "activities", << >>)
    IN  UNION { TypeIdsOf(Field(activities[i].v, "materials", << >>)) :
                  i \in DOMAIN activities }

\* C1: get_dependencies(t) with the default depth returns a set that
\* contains t, for every t: craftable or not, known to the files or not.
C1_ClosureContainsSelf ==
    (Returned /\ call.depth = DefaultDepth) => call.type_id \in ret.value
C1_Witness ==
    /\ Returned
    /\ call.depth = DefaultDepth
    /\ Craftable(call.type_id)
    /\ ListedMaterials(type_to_blueprint[call.type_id]) # {}
    /\ call.type_id \in ret.value

\* a and b require each other: each is a material of the blueprint that
\* produces the other
Requires(a, b) ==
    /\ Craftable(a)
    /\ b \in ListedMaterials(type_to_blueprint[a])
OnCycle(a, b) == a # b /\ Requires(a, b) /\ Requires(b, a)

\* C2: every call of get_dependencies returns, on cyclic graphs too, and
\* on a cycle A <-> B the call get_dependencies(A) returns a set that
\* contains both A and B.
C2_CycleSafety ==
    /\ (stack # << >>) ~> Returned
    /\ [](\A b \in Mentioned :
            (Returned /\ call.depth = DefaultDepth /\ OnCycle(call.type_id, b))
                => {call.type_id, b} \subseteq ret.value)
C2_Witness ==
    /\ Returned
    /\ call.depth = DefaultDepth
    /\ \E b \in Mentioned :
          OnCycle(call.type_id, b) /\ {call.type_id, b} \subseteq ret.value

\* C3: get_dependencies(t, depth=0) returns the empty set and leaves the
\* visited set without t.
C3_DepthZeroIsEmpty ==
    (Returned /\ call.depth = 0) => (ret.value = {} /\ call.type_id \notin visited)
C3_Witness ==
    /\ Returned
    /\ call.depth = 0
    /\ Craftable(call.type_id)
    /\ ret.value = {}

\* C6: a second run of the graph build over the same blueprints leaves
\* type_to_blueprint, blueprint_materials and blueprint_products as the
\* first run left them.
C6_BuildIdempotent ==
    builds = 2 => Graph(Self) = first_build.graph
C6_Witness ==
    /\ builds = 2
    /\ \E t \in DOMAIN type_to_blueprint :
          ListedMaterials(type_to_blueprint[t]) # {}
    /\ Graph(Self) = first_build.graph

\* C7: after the graph build every blueprint id that is a value of
\* type_to_blueprint is a key of blueprint_materials and of blueprints.
C7_IndexConsistent ==
    builds >= 1 =>
        \A t \in DOMAIN type_to_blueprint :
            /\ type_to_blueprint[t] \in DOMAIN blueprint_materials
            /\ Has(blueprints, type_to_blueprint[t])
C7_Witness ==
    /\ builds >= 1
    /\ \E t \in DOMAIN type_to_blueprint :
          /\ ListedMaterials(type_to_blueprint[t]) = {}
          /\ type_to_blueprint[t] \in DOMAIN blueprint_materials

\* C8: for t produced by blueprint b and depth >= 1 the result contains t,
\* b and every material id b lists in any activity; in the scenario
\* (blueprint 200, material 10, product 100) get_dependencies(100) is
\* exactly {100, 200, 10}.
C8_DirectExpansion ==
    /\ (Returned /\ call.depth >= 1 /\ Craftable(call.type_id)) =>
          LET b == type_to_blueprint[call.type_id]
          IN  ({call.type_id, b} \cup ListedMaterials(b)) \subseteq ret.value
    /\ (Returned /\ disk = ScenarioDisk /\ call.type_id = 100
          /\ call.depth = DefaultDepth) => ret.value = {100, 200, 10}
C8_Witness ==
    /\ Returned
    /\ disk = ScenarioDisk
    /\ call.type_id = 100
    /\ call.depth = DefaultDepth
    /\ ret.value = {100, 200, 10}

\* C4: after construction every type id of the loaded types is a member
\* of exactly one of the eight category sets.
InCategories(tid) == { c \in CategoryNames : tid \in categories[c] }
C4_CategoryExclusive ==
    pc = "ready" => \A tid \in TypeKeyIds : Cardinality(InCategories(tid)) = 1

\* the export of the single id t without its dependencies, t a key of types
\* and of neither ships nor blueprints
ExportedAlone(t) ==
    /\ result.op = "export_selection"
    /\ result.type_ids = << t >>
    /\ ~result.include_dependencies
    /\ Has(types, Str(t))
    /\ ~Has(ships, Str(t))
    /\ ~Has(blueprints, t)
OnlyRecord(t) == [key \in {Str(t)} |-> Get(types, Str(t))]

\* C5, as claimed: export_selection([t], include_dependencies=False) for
\* such a t returns types = {t: record}, ships = {} and blueprints = {}.
C5_RoundTripEmptyBlueprints ==
    \A t \in QueryIds \cup TypeKeyIds :
        ExportedAlone(t) =>
            /\ result.value.types = OnlyRecord(t)
            /\ result.value.ships = EmptyFn
            /\ result.value.blueprints = EmptyFn

\* C5, amended: it returns types = {t: record} and ships = {}, and the
\* blueprints section holds exactly the blueprint that produces t when
\* there is one and is empty when there is none.
C5_RoundTripWithProducer ==
    \A t \in QueryIds \cup TypeKeyIds :
        ExportedAlone(t) =>
            /\ result.value.types = OnlyRecord(t)
            /\ result.value.ships = EmptyFn
            /\ result.written = result.value
            /\ result.value.blueprints =
                  IF Craftable(t)
                  THEN [key \in {Str(type_to_blueprint[t])} |->
                           Get(blueprints, type_to_blueprint[t])]
                  ELSE EmptyFn
C5_Witness ==
    \E t \in TypeKeyIds :
        /\ ExportedAlone(t)
        /\ Craftable(t)
        /\ ListedMaterials(type_to_blueprint[t]) \cap TypeKeyIds # {}
        /\ result.value.types = OnlyRecord(t)
        /\ DOMAIN result.value.blueprints = {Str(type_to_blueprint[t])}

\* the name a mapping holds for a key ('' when the record has no typeName)
NameIn(mapping, key) == Field(Get(mapping, key), "typeName", << >>)
SearchReturned == result.op = "search_types"
EntriesFor(tid) == { i \in DOMAIN result.value : result.value[i].typeID = tid }
InBoth == { key \in Keys(types) \cap Keys(ships) : IsDigitKey(key) }

\* C9, as claimed: for an id in both mappings whose name matches the query,
\* search_types returns exactly one result and it is the ships one.
C9_ShipsTakePrecedence ==
    SearchReturned =>
        \A key \in InBoth :
            (/\ Matches(NameIn(types, key), result.query)
             /\ Matches(NameIn(ships, key), result.query)) =>
                /\ Cardinality(EntriesFor(IntOf(key))) = 1
                /\ \A i \in EntriesFor(IntOf(key)) : result.value[i].source = "ships"

\* C9, amended: for an id in both mappings whose name matches the query in
\* either, search_types returns exactly one result for the id: the one of
\* the types mapping when the name in types matches, the one of the ships
\* mapping only when it does not.
C9_TypesTakePrecedence ==
    SearchReturned =>
        \A key \in InBoth :
            (\/ Matches(NameIn(types, key), result.query)
             \/ Matches(NameIn(ships, key), result.query)) =>
                /\ Cardinality(EntriesFor(IntOf(key))) = 1
                /\ \A i \in EntriesFor(IntOf(key)) :
                      IF Matches(NameIn(types, key), result.query)
                      THEN /\ result.value[i].source = "types"
                           /\ result.value[i].typeName = NameIn(types, key)
                      ELSE /\ result.value[i].source = "ships"
                           /\ result.value[i].typeName = NameIn(ships, key)
C9_Witness ==
    /\ SearchReturned
    /\ \E key \in InBoth :
          /\ Matches(NameIn(types, key), result.query)
          /\ Matches(NameIn(ships, key), result.query)
          /\ NameIn(types, key) # NameIn(ships, key)
          /\ \E i \in EntriesFor(IntOf(key)) : result.value[i].source = "types"

\* two letters that differ at most in case
SameLetter(c, d) ==
    \/ c = d
    \/ IsUpper(c) /\ IsLower(d) /\ IndexIn(UpperCase, c) = IndexIn(LowerCase, d)
    \/ IsLower(c) /\ IsUpper(d) /\ IndexIn(LowerCase, c) = IndexIn(UpperCase, d)
\* name has query as a substring, letter case ignored
FoldedContains(name, query) ==
    \E i \in 0..(Len(name) - Len(query)) :
        \A j \in 1..Len(query) : SameLetter(name[i + j], query[j])
NamedLike(mapping, query) ==
    { IntOf(key) :
        key \in { k \in Keys(mapping) :
                    /\ NameIn(mapping, k) # << >>
                    /\ FoldedContains(NameIn(mapping, k), query) } }

\* C10: search_types(q) returns one entry for exactly the ids whose
\* non-empty name in types or ships contains q, letter case ignored; no id
\* twice; ascending by name; and on the scenario data search_types('Widget')
\* is the single entry typeID 100, typeName 'Widget', source 'types'.
C10_SearchResultSet ==
    SearchReturned =>
        LET rs == result.value
            q  == result.query
        IN  /\ { rs[i].typeID : i \in DOMAIN rs } = NamedLike(types, q) \cup NamedLike(ships, q)
            /\ \A i, j \in DOMAIN rs : i # j => rs[i].typeID # rs[j].typeID
            /\ \A i \in 1..(Len(rs) - 1) : ~StrLess(rs[i + 1].typeName, rs[i].typeName)
            /\ (disk = ScenarioDisk /\ q = Widget) =>
                  /\ Len(rs) = 1
                  /\ rs[1].typeID = 100
                  /\ rs[1].typeName = Widget
                  /\ rs[1].source = "types"
C10_Witness ==
    /\ SearchReturned
    /\ Len(result.value) = 2
    /\ result.query # << >>
    /\ result.value[1].typeName # result.value[2].typeName
    /\ \E i \in DOMAIN result.value : ~Contains(result.value[i].typeName, result.query)
    /\ \E i \in DOMAIN result.value : result.value[i].source = "ships"

(***************************************************************************)
(* The two models of get_dependencies agree: what the activations return   *)
(* is what the recursive definition gives for some iteration order.        *)
(***************************************************************************)
ActivationsAgree ==
    Returned =>
        \E ord \in Orders(AllMaterials) :
            GetDependencies(Self, call.type_id, call.depth, {}, ord).deps = ret.value
(***************************************************************************)
(* C11: export_selection assembles its payload from the selected ids: the  *)
(* requested ids plus, when include_dependencies is true, the union of     *)
(* get_dependencies(id) over them.  The types section is exactly the       *)
(* selected ids that are keys of self.types, the ships section exactly     *)
(* those that are keys of self.ships, the blueprints section exactly the   *)
(* blueprints producing a selected id; every entry is the loaded one.      *)
(***************************************************************************)
Requested == { result.type_ids[i] : i \in DOMAIN result.type_ids }
SelectedIds(ord) ==
    Requested \cup
    IF result.include_dependencies
    THEN UNION { GetDependencies(Self, tid, DefaultDepth, {}, ord).deps :
                   tid \in Requested }
    ELSE {}
FromMapping(section, mapping) ==
    \A key \in DOMAIN section : Has(mapping, key) /\ section[key] = Get(mapping, key)
C11_ExportAssembly ==
    (pc = "ready" /\ result.op = "export_selection") =>
        \A ord \in Orders(AllMaterials) :
            LET selected == SelectedIds(ord)
                keys == { Str(tid) : tid \in selected }
                output == result.value
            IN  /\ DOMAIN output.types = keys \cap Keys(types)
                /\ FromMapping(output.types, types)
                /\ DOMAIN output.ships = keys \cap Keys(ships)
                /\ FromMapping(output.ships, ships)
                /\ DOMAIN output.blueprints =
                       { Str(type_to_blueprint[tid]) :
                           tid \in selected \cap DOMAIN type_to_blueprint }
                /\ \A key \in DOMAIN output.blueprints :
                       /\ IntOf(key) \in Keys(blueprints)
                       /\ output.blueprints[key] = Get(blueprints, IntOf(key))
C11_Witness ==
    /\ pc = "ready"
    /\ result.op = "export_selection"
    /\ result.include_dependencies
    /\ Cardinality(Requested) = 2
    /\ \E ord \in Orders(AllMaterials) : SelectedIds(ord) \ Requested # {}
    /\ Cardinality(DOMAIN result.value.types) >= 2
    /\ DOMAIN result.value.ships # {}
    /\ DOMAIN result.value.blueprints # {}
    /\ Keys(types) \ DOMAIN result.value.types # {}
(***************************************************************************)
(* C12: for a category name that is none of the eight, list_category       *)
(* returns an empty list and export_category returns None, writes no       *)
(* output file and leaves the mappings, the graph and the category sets    *)
(* as they were.                                                           *)
(***************************************************************************)
UnknownCategoryResult(r) ==
    /\ r.op \in { "list_category", "export_category" }
    /\ r.category \notin CategoryNames
ResolverState ==
    << blueprints, types, ships, all_dogma, type_to_blueprint,
       blueprint_materials, blueprint_products, categories >>
C12_UnknownCategory ==
    /\ [](UnknownCategoryResult(result) =>
            IF result.op = "list_category"
            THEN result.value = << >>
            ELSE result.none /\ ~result.wrote)
    /\ [][UnknownCategoryResult(result') => UNCHANGED ResolverState]_vars
C12_Witness ==
    /\ result.op = "export_category"
    /\ result.category \notin CategoryNames
    /\ types # << >>
    /\ categories.modules # {}

(***************************************************************************)
(* C13: once the resolver is constructed, no query and no export changes   *)
(* the types, ships, blueprints and dogma mappings, the graph indexes or   *)
(* the category sets; a category export puts dogmaAttributes on a copy,    *)
(* so no record of self.types gains a dogmaAttributes key.                 *)
(***************************************************************************)
C13_QueriesDoNotMutate ==
    /\ [][pc = "ready" => UNCHANGED ResolverState]_vars
    /\ [](\A key \in Keys(types) : "dogmaAttributes" \notin DOMAIN Get(types, key))
C13_Witness ==
    /\ result.op = "export_category"
    /\ result.category \in { "modules", "materials" }
    /\ \E key \in DOMAIN result.value :
          /\ "dogmaAttributes" \in DOMAIN result.value[key]
          /\ Has(types, key)
          /\ Has(all_dogma, key)
(***************************************************************************)
(* C14: for a type id no blueprint produces, known to the files or not,    *)
(* get_dependencies(t) returns exactly {t} and get_full_chain(t) returns   *)
(* exactly one level, holding the single entry of t, with craftable false  *)
(* and no materials.                                                       *)
(***************************************************************************)
ChainReturned == pc = "ready" /\ result.op = "get_full_chain" /\ result.done
C14_NoBlueprintIsSingleton ==
    /\ (Returned /\ call.depth = DefaultDepth /\ ~Craftable(call.type_id))
          => ret.value = {call.type_id}
    /\ (ChainReturned /\ ~Craftable(result.type_id)) =>
          LET levels == result.value.levels
          IN  /\ Len(levels) = 1
              /\ Len(levels[1]) = 1
              /\ levels[1][1].typeID = result.type_id
              /\ levels[1][1].craftable = FALSE
              /\ levels[1][1].materials = << >>
C14_Witness ==
    /\ ChainReturned
    /\ ~Craftable(result.type_id)
    /\ result.type_id \in Keys(blueprints)
    /\ ListedMaterials(result.type_id) # {}
    /\ Len(result.value.levels) = 1

(***************************************************************************)
(* C15: in the result of get_full_chain(t) level 0 holds exactly t, and    *)
(* each next level holds exactly the material ids of the blueprints        *)
(* producing the types of the level before it that are in no earlier       *)
(* level; the chain ends where no such id is left.                         *)
(***************************************************************************)
LevelIds(levels, k) == { levels[k][i].typeID : i \in DOMAIN levels[k] }
PlacedUpTo(levels, k) == UNION { LevelIds(levels, j) : j \in 1..k }
MaterialsFor(S) ==
    UNION { ListedMaterials(type_to_blueprint[x]) : x \in { y \in S : Craftable(y) } }
C15_ChainLevels ==
    ChainReturned =>
        LET levels == result.value.levels
        IN  /\ Len(levels) >= 1
            /\ LevelIds(levels, 1) = {result.type_id}
            /\ \A k \in DOMAIN levels : Len(levels[k]) = Cardinality(LevelIds(levels, k))
            /\ \A k \in 1..(Len(levels) - 1) :
                  LevelIds(levels, k + 1) =
                      MaterialsFor(LevelIds(levels, k)) \ PlacedUpTo(levels, k)
            /\ MaterialsFor(LevelIds(levels, Len(levels)))
                  \subseteq PlacedUpTo(levels, Len(levels))
C15_Witness ==
    /\ ChainReturned
    /\ Len(result.value.levels) = 2
    /\ Cardinality(LevelIds(result.value.levels, 2)) = 2
    /\ \E a, b \in LevelIds(result.value.levels, 2) : Requires(a, b)

(***************************************************************************)
(* C16: every entry of every level of get_full_chain has craftable true    *)
(* exactly when its id is a key of type_to_blueprint; its materials list   *)
(* holds exactly the material ids of the producing blueprint, once each,   *)
(* and is empty when the id is not craftable; each material is tagged      *)
(* craftable exactly when it is a key of type_to_blueprint.  In the        *)
(* documented scenario get_full_chain(100) has level 0 = [100, craftable,  *)
(* materials [10]] and level 1 = [10, not craftable, no materials].        *)
(***************************************************************************)
MaterialIdsOf(entry) ==
    { entry.materials[i].typeID : i \in DOMAIN entry.materials }
EntryContent(entry) ==
    /\ entry.craftable = Craftable(entry.typeID)
    /\ MaterialIdsOf(entry) = MaterialsFor({entry.typeID})
    /\ Len(entry.materials) = Cardinality(MaterialIdsOf(entry))
    /\ \A i \in DOMAIN entry.materials :
          entry.materials[i].craftable = Craftable(entry.materials[i].typeID)
C16_ChainEntries ==
    /\ ChainReturned =>
          \A k \in DOMAIN result.value.levels :
          \A i \in DOMAIN result.value.levels[k] :
              EntryContent(result.value.levels[k][i])
    /\ (ChainReturned /\ disk = ScenarioDisk /\ result.type_id = 100) =>
          result.value.levels =
            << << [typeID |-> 100, typeName |-> Widget, craftable |-> TRUE,
                   materials |-> << [typeID |-> 10, typeName |-> Tritanium,
                                     craftable |-> FALSE] >>] >>,
               << [typeID |-> 10, typeName |-> Tritanium, craftable |-> FALSE,
                   materials |-> << >>] >> >>
C16_Witness ==
    /\ ChainReturned
    /\ \E k \in DOMAIN result.value.levels :
       \E i \in DOMAIN result.value.levels[k] :
          LET entry == result.value.levels[k][i]
          IN  /\ entry.craftable
              /\ \E m, n \in DOMAIN entry.materials :
                    entry.materials[m].craftable /\ ~entry.materials[n].craftable
(***************************************************************************)
(* C17: in a call get_dependencies(t, depth=d) no recursive call is made   *)
(* with a negative depth, an activation reaches its materials loop only    *)
(* with depth >= 1, and every id of the result that is no blueprint id is  *)
(* reachable from t by at most d material hops.                            *)
(***************************************************************************)
RECURSIVE WithinHops(_, _)
WithinHops(t, d) ==
    IF d <= 0 THEN {t}
    ELSE LET near == WithinHops(t, d - 1) IN near \cup MaterialsFor(near)
C17_DepthLimit ==
    /\ \A i \in DOMAIN stack :
          /\ stack[i].depth >= 0
          /\ stack[i].at = "loop" => stack[i].depth >= 1
    /\ Returned =>
          (ret.value \ Keys(blueprints)) \subseteq WithinHops(call.type_id, call.depth)
C17_Witness ==
    /\ Returned
    /\ call.depth = 1
    /\ Cardinality(ret.value \ Keys(blueprints)) >= 2
    /\ WithinHops(call.type_id, 2) \ (ret.value \cup Keys(blueprints)) # {}
(***************************************************************************)
(* C18: when the blueprints, types, ships or dogma file is absent, the     *)
(* construction (load, graph build, categorization) raises nothing, runs   *)
(* to its end, and leaves the mapping of the absent file empty.            *)
(***************************************************************************)
AbsentFiles == { f \in { "blueprints", "types", "ships", "dogma" } : ~disk[f].exists }
Loaded == pc \in { "loaded", "built", "ready" }
C18_MissingFileNonFatal ==
    /\ [](AbsentFiles # {} => pc # "raised")
    /\ [](Loaded =>
            /\ "blueprints" \in AbsentFiles => blueprints = << >>
            /\ "types" \in AbsentFiles => types = << >>
            /\ "ships" \in AbsentFiles => ships = << >>
            /\ "dogma" \in AbsentFiles => all_dogma = << >>)
    /\ (AbsentFiles # {}) ~> (pc = "ready")
C18_Witness ==
    /\ pc = "ready"
    /\ AbsentFiles = { "ships", "dogma" }
    /\ types # << >>
    /\ blueprints # << >>
    /\ ships = << >>
    /\ all_dogma = << >>

(***************************************************************************)
(* C20: the rule loop puts a type in the category of the earliest rule it  *)
(* meets, in the order ship group, Blueprint, ores, fuel, ammo, weapon,    *)
(* defense, propulsion, electronic, mining, craftable-or-raw: a type of a  *)
(* ship group is in ships whatever its name, a name with an ores keyword   *)
(* and an ammo keyword is in ores.                                         *)
(***************************************************************************)
RuleWords == << OreWords, FuelWords, AmmoWords, WeaponWords, DefenseWords,
                PropulsionWords, ElectronicWords, MiningWords >>
RuleCats == << "ships", "blueprints", "ores", "fuel", "ammo", "modules",
               "modules", "modules", "modules", "modules" >>
RuleHolds(k, type_data) ==
    LET name == Field(type_data, "typeName", << >>)
    IN  IF k = 1 THEN Field(type_data, "groupID", NoGroup) \in ship_groups
        ELSE IF k = 2 THEN Contains(name, BlueprintWord)
        ELSE IF k <= Len(RuleCats) THEN ContainsAny(name, RuleWords[k - 2])
        ELSE TRUE
EarliestRule(type_data) ==
    CHOOSE k \in 1..(Len(RuleCats) + 1) :
        /\ RuleHolds(k, type_data)
        /\ \A j \in 1..(k - 1) : ~RuleHolds(j, type_data)
CategoryByOrder(tid, type_data) ==
    LET k == EarliestRule(type_data)
    IN  IF k <= Len(RuleCats) THEN RuleCats[k]
        ELSE IF Craftable(tid) THEN "components" ELSE "materials"
\* the categories tid is in, those the graph build and the ships pass add aside
ByRuleLoop(tid) ==
    InCategories(tid)
      \ ((IF Has(ships, Str(tid)) THEN { "ships" } ELSE {})
         \cup (IF tid \in Keys(blueprints) THEN { "blueprints" } ELSE {}))
C20_RuleOrder ==
    pc = "ready" =>
        \A i \in DOMAIN types :
            LET tid == IntOf(types[i].k)
                type_data == types[i].v
                cat == CategoryByOrder(tid, type_data)
            IN  /\ tid \in categories[cat]
                /\ ByRuleLoop(tid) \subseteq { cat }
                /\ Field(type_data, "groupID", NoGroup) \in ship_groups
                      => tid \in categories.ships
                /\ (type_data = [typeName |-> OreCharge])
                      => (tid \in categories.ores /\ tid \notin categories.ammo)
C20_Witness ==
    /\ pc = "ready"
    /\ ships = << >>
    /\ \E i, j \in DOMAIN types :
          /\ types[i].v = [typeName |-> OreCharge]
          /\ IntOf(types[i].k) \in categories.ores
          /\ types[j].v = [typeName |-> MissileLauncher, groupID |-> 25]
          /\ IntOf(types[j].k) \in categories.ships
          /\ InCategories(IntOf(types[j].k)) = { "ships" }
(***************************************************************************)
(* C19: a loaded record that lacks an expected field (a blueprint without  *)
(* blueprintTypeID or activities, a material or product entry without      *)
(* typeID, a type without typeName or groupID) is handled as if the field  *)
(* were absent or default: loading, graph build, categorization and every  *)
(* query complete without raising.                                         *)
(***************************************************************************)
C19_NeverRaises == pc # "raised"
(***************************************************************************)
(* C21: keyword matching of the classifier is a case-insensitive substring *)
(* match on the display name: two types whose names differ in letter case  *)
(* only, with the same group id and the same craftability, get the same    *)
(* category, and a type named 'Tritanium Ore' with no blueprint and        *)
(* outside the ship groups is classified ores.                             *)
(***************************************************************************)
SameButCase(a, b) ==
    /\ Lower(Field(a.v, "typeName", << >>)) = Lower(Field(b.v, "typeName", << >>))
    /\ Field(a.v, "groupID", NoGroup) = Field(b.v, "groupID", NoGroup)
    /\ Craftable(IntOf(a.k)) <=> Craftable(IntOf(b.k))
C21_CaseInsensitive ==
    pc = "ready" =>
        /\ \A i, j \in DOMAIN types :
              SameButCase(types[i], types[j])
                  => ByRuleLoop(IntOf(types[i].k)) = ByRuleLoop(IntOf(types[j].k))
        /\ \A i \in DOMAIN types :
              (types[i].v = [typeName |-> TritaniumOre] /\ ~Craftable(IntOf(types[i].k)))
                  => IntOf(types[i].k) \in categories.ores
(***************************************************************************)
(* C22: after categorization every numeric id that is a key of the loaded  *)
(* ships mapping is a member of the ships category, whatever its group id  *)
(* or name; a non-numeric key such as 'meta' is added to no category.      *)
(***************************************************************************)
NumericIds(mapping) == { IntOf(key) : key \in { k \in Keys(mapping) : IsDigitKey(k) } }
C22_ShipsPostPass ==
    pc = "ready" =>
        /\ \A key \in Keys(ships) :
              IsDigitKey(key) => IntOf(key) \in categories.ships
        /\ UNION { categories[c] : c \in CategoryNames }
              \subseteq (NumericIds(types) \cup NumericIds(ships) \cup Keys(blueprints))
C22_Witness ==
    /\ pc = "ready"
    /\ Has(ships, "meta")
    /\ \E i \in DOMAIN types :
          /\ types[i].k = "1"
          /\ Field(types[i].v, "groupID", NoGroup) \notin ship_groups
          /\ Has(ships, "1")
          /\ 1 \in categories.ships
          /\ Cardinality(InCategories(1)) = 2
(***************************************************************************)
(* C23: a type that meets none of the ship-group and keyword rules is put  *)
(* in components exactly when its id is a key of type_to_blueprint, and in *)
(* materials otherwise; so every member of components is produced by a     *)
(* blueprint and no member of materials is.                                *)
(***************************************************************************)
ProducedBy(tid) ==
    \E i \in DOMAIN blueprints :
        \E a \in DOMAIN blueprints[i].v.activities :
            \E r \in DOMAIN blueprints[i].v.activities[a].v.products :
                blueprints[i].v.activities[a].v.products[r].typeID = tid
C23_Fallback ==
    pc = "ready" =>
        /\ \A i \in DOMAIN types :
              LET tid == IntOf(types[i].k)
              IN  EarliestRule(types[i].v) = Len(RuleCats) + 1
                    => /\ tid \in categories.components <=> Craftable(tid)
                       /\ tid \in categories.materials <=> ~Craftable(tid)
        /\ \A tid \in categories.components : Craftable(tid) /\ ProducedBy(tid)
        /\ \A tid \in categories.materials : ~Craftable(tid) /\ ~ProducedBy(tid)
C23_Witness ==
    /\ pc = "ready"
    /\ 1 \in categories.components
    /\ 2 \in categories.materials
    /\ ProducedBy(1)
(***************************************************************************)
(* C24: each product type id maps in type_to_blueprint to exactly one      *)
(* blueprint, the last blueprint in processing order whose activities list *)
(* it as a product; and when no product id is listed by two different      *)
(* blueprints, the built graph (type_to_blueprint, blueprint_materials,    *)
(* blueprint_products) is the same for every processing order of the       *)
(* blueprints and of their activities.                                     *)
(***************************************************************************)
ListedProducts(bp) ==
    UNION { TypeIdsOf(Field(bp.activities[a].v, "products", << >>)) :
              a \in DOMAIN bp.activities }
Listing(p) == { i \in DOMAIN blueprints : p \in ListedProducts(blueprints[i].v) }
LastListing(p) == CHOOSE i \in Listing(p) : \A j \in Listing(p) : j <= i
NoSharedProduct ==
    \A i, j \in DOMAIN blueprints :
        i # j => ListedProducts(blueprints[i].v) \cap ListedProducts(blueprints[j].v) = {}
Perms(seq) ==
    { [i \in DOMAIN seq |-> seq[f[i]]] :
        f \in { g \in [DOMAIN seq -> DOMAIN seq] :
                  \A i, j \in DOMAIN seq : g[i] = g[j] => i = j } }
ActivityOrders(row) ==
    { [row EXCEPT !.v.activities = acts] : acts \in Perms(row.v.activities) }
Reorderings(rows) ==
    UNION { { s \in [DOMAIN rows -> UNION { ActivityOrders(perm[i]) : i \in DOMAIN perm }] :
                \A i \in DOMAIN rows : s[i] \in ActivityOrders(perm[i]) } :
            perm \in Perms(rows) }
NewSelf ==
    [type_to_blueprint |-> EmptyFn, blueprint_materials |-> EmptyFn,
     blueprint_products |-> EmptyFn, categories |-> NoCategories]
C24_LastBlueprintWins ==
    (pc = "built" /\ builds = 1) =>
        /\ DOMAIN type_to_blueprint
             = UNION { ListedProducts(blueprints[i].v) : i \in DOMAIN blueprints }
        /\ \A p \in DOMAIN type_to_blueprint :
              type_to_blueprint[p] = blueprints[LastListing(p)].k
        /\ NoSharedProduct =>
              \A rows \in Reorderings(blueprints) :
                  Graph(BuildDependencyGraph(NewSelf, rows)) = Graph(Self)
C24_Witness ==
    /\ pc = "built"
    /\ builds = 1
    /\ Len(blueprints) = 2
    /\ \E p \in DOMAIN type_to_blueprint :
          /\ Listing(p) = { 1, 2 }
          /\ type_to_blueprint[p] = blueprints[2].k
          /\ type_to_blueprint[p] # blueprints[1].k
(***************************************************************************)
(* C25: the loader treats blueprints.json as a raw cache dump when it has  *)
(* a 'cache' key (each entry's value parsed as nested JSON and keyed by    *)
(* its blueprintTypeID), otherwise as an export wrapper when it has a      *)
(* 'blueprints' key, otherwise as a flat id-to-blueprint mapping in which  *)
(* non-numeric keys are skipped; in all three shapes the resulting mapping *)
(* is keyed by the integer blueprint id, and the same set of blueprints    *)
(* given in any of the three shapes yields the same mapping.               *)
(***************************************************************************)
GivenBlueprints(file) ==
    IF Has(file.data, "cache")
    THEN LET rows == Get(file.data, "cache")
         IN  [i \in DOMAIN rows |-> Entry(rows[i].key, JsonLoads(rows[i].value))]
    ELSE IF Has(file.data, "blueprints") THEN Get(file.data, "blueprints")
    ELSE SelectSeq(file.data, LAMBDA item : IsDigitKey(item.k))
ById(items) ==
    [i \in DOMAIN items |-> Entry(items[i].v.blueprintTypeID, items[i].v)]
C25_FileShapes ==
    pc # "new" =>
        LET given == GivenBlueprints(disk.blueprints)
        IN  /\ pc # "raised"
            /\ blueprints = ById(given)
            /\ \A i \in DOMAIN blueprints :
                  /\ blueprints[i].k \in BpIds
                  /\ Str(blueprints[i].k) = given[i].k
            /\ \A shape \in { "cache", "blueprints", "flat" } :
                  LoadBlueprints(BlueprintsFile(shape, given)) = blueprints
C25_Witness ==
    /\ pc = "loaded"
    /\ Has(disk.blueprints.data, "cache")
    /\ Has(disk.blueprints.data, "blueprints")
    /\ Len(blueprints) = 2
    /\ blueprints # LoadWrapped(Get(disk.blueprints.data, "blueprints"), << >>)
    /\ blueprints = LoadBlueprints(BlueprintsFile("flat", GivenBlueprints(disk.blueprints)))
(***************************************************************************)
(* C26: when every simple path of material hops starting at t is shorter   *)
(* than maxDepth, get_dependencies(t, maxDepth) is exactly the set R of    *)
(* types reachable from t through 'material of the producing blueprint'    *)
(* edges, together with the producing blueprint id of every craftable type *)
(* in R: nothing reachable is left out, nothing unreachable is added.      *)
(***************************************************************************)
RECURSIVE LongestFrom(_, _)
LongestFrom(t, onPath) ==
    LET further == MaterialsFor({t}) \ (onPath \cup {t})
        lengths == { LongestFrom(m, onPath \cup {t}) : m \in further }
    IN  IF further = {} THEN 0
        ELSE 1 + (CHOOSE n \in lengths : \A k \in lengths : k <= n)
ReachableFrom(t) == WithinHops(t, Cardinality(Mentioned) + 1)
ClosureOf(t) ==
    ReachableFrom(t)
        \cup { type_to_blueprint[x] : x \in { y \in ReachableFrom(t) : Craftable(y) } }
C26_FullClosure ==
    (Returned /\ LongestFrom(call.type_id, {}) < call.depth)
        => ret.value = ClosureOf(call.type_id)
C26_Witness ==
    /\ Returned
    /\ call.depth = SmallDepth
    /\ LongestFrom(call.type_id, {}) = SmallDepth - 1
    /\ \E m \in ReachableFrom(call.type_id) :
          /\ m \in MaterialsFor({call.type_id})
          /\ m \in MaterialsFor(MaterialsFor({call.type_id}))
    /\ ret.value = ClosureOf(call.type_id)
(***************************************************************************)
(* C27: for a fixed graph, type id t and maxDepth, the set returned by     *)
(* get_dependencies does not depend on the order in which the material ids *)
(* of a blueprint are iterated, also when a shared material is reachable   *)
(* by paths of different lengths and the depth limit is reached on the     *)
(* longer one.                                                             *)
(***************************************************************************)
C27_OrderIndependent ==
    Returned =>
        \A ord \in Orders(AllMaterials) :
            GetDependencies(Self, call.type_id, call.depth, {}, ord).deps = ret.value
(***************************************************************************)
(* C28: get_full_chain(t) terminates on every finite graph, cyclic ones    *)
(* included, with no depth limit; in its result every type reachable from  *)
(* t through material edges appears in exactly one level, the index of     *)
(* that level is the type's shortest material-hop distance from t, and no  *)
(* level is empty.                                                         *)
(***************************************************************************)
Distance(t, x) ==
    CHOOSE d \in 0..Cardinality(ReachableFrom(t)) :
        /\ x \in WithinHops(t, d)
        /\ d > 0 => x \notin WithinHops(t, d - 1)
ChainPartition ==
    ChainReturned =>
        LET levels == result.value.levels
            t == result.type_id
        IN  /\ PlacedUpTo(levels, Len(levels)) = ReachableFrom(t)
            /\ \A k \in DOMAIN levels :
                  /\ levels[k] # << >>
                  /\ Len(levels[k]) = Cardinality(LevelIds(levels, k))
                  /\ \A x \in LevelIds(levels, k) :
                        /\ Distance(t, x) = k - 1
                        /\ \A j \in DOMAIN levels : x \in LevelIds(levels, j) => j = k
C28_ChainTerminates ==
    /\ ChainRunning ~> ChainReturned
    /\ []ChainPartition
C28_Witness ==
    /\ ChainReturned
    /\ \E x \in Mentioned : OnCycle(result.type_id, x)
    /\ Len(result.value.levels) >= 2
    /\ \E x \in ReachableFrom(result.type_id) : Distance(result.type_id, x) = 1
(***************************************************************************)
(* C29: when maxDepth exceeds the length of every simple material path     *)
(* from t, the type ids in the levels of get_full_chain(t), united with    *)
(* the producing blueprint ids of its craftable entries, are               *)
(* get_dependencies(t, maxDepth); when the depth limit is shorter, the     *)
(* non-blueprint ids of get_dependencies(t, maxDepth) are a subset of the  *)
(* chain's type ids.                                                       *)
(***************************************************************************)
ChainTypeIds(levels) == PlacedUpTo(levels, Len(levels))
ChainBlueprintIds(levels) ==
    UNION { { type_to_blueprint[levels[k][i].typeID] :
                i \in { j \in DOMAIN levels[k] : levels[k][j].craftable } } :
            k \in DOMAIN levels }
Ascending(t) == SortedSeq(AllMaterials \cup {t})
TraversalsAgree(t, depth, deps, levels) ==
    /\ LongestFrom(t, {}) < depth
          => deps = ChainTypeIds(levels) \cup ChainBlueprintIds(levels)
    /\ (deps \ Keys(blueprints)) \subseteq ChainTypeIds(levels)
C29_TraversalsAgree ==
    /\ Returned =>
          TraversalsAgree(call.type_id, call.depth, ret.value,
              GetFullChain(Self, types, ships, call.type_id,
                           Ascending(call.type_id)).levels)
    /\ ChainReturned =>
          \A depth \in Depths :
              TraversalsAgree(result.type_id, depth,
                  GetDependencies(Self, result.type_id, depth, {},
                                  Ascending(result.type_id)).deps,
                  result.value.levels)
C29_Witness ==
    /\ Returned
    /\ call.depth = SmallDepth
    /\ LongestFrom(call.type_id, {}) > SmallDepth
    /\ (ret.value \ Keys(blueprints)) # ReachableFrom(call.type_id)
    /\ Cardinality(ret.value \ Keys(blueprints)) >= SmallDepth
=============================================================================
